---- MODULE Spec2Model ----
(***************************************************************************)
(* The chat-transcript processor (chat-parser, package main): a line at a  *)
(* time it classifies an agent session stream, prints a coloured           *)
(* transcript, sends one Buildkite annotation per entry and, with -o,      *)
(* copies the raw stream to a file.                                        *)
(*                                                                         *)
(* Go strings are TLA+ strings (ASCII, so len() counts characters).  Two   *)
(* notational substitutions: the ESC byte of the ANSI colour codes is left *)
(* out, the emoji of the source are written as :shortcodes: and the        *)
(* backquote of its Markdown as ', since the module's strings are plain    *)
(* ASCII without backquotes.  encoding/json is a library: its decoding     *)
(* of a raw line is tabulated on the sample lines (Unmarshal, prettyLine,  *)
(* jsonText), its encoding of a decoded value is computed (Marshal,        *)
(* MarshalIndent).                                                         *)
(***************************************************************************)
EXTENDS Integers, Sequences, FiniteSets, TLC

VARIABLES
    pc,             \* position in parseAndStreamOutput[WithFile]'s loop
    outputFile,     \* the -o file name, "" when no capture was asked for
    consumed,       \* the raw lines scanner.Scan() has delivered so far
    line,           \* the loop's local: the line being processed
    entry,          \* the loop's local: parseLine's result, <<>> for nil
    staticLineNum,  \* the package-level line counter
    clock,          \* whole seconds elapsed since startTime
    stdout,         \* what printSingleEntry has printed, one record a line
    stderr,         \* the log package's output
    annots,         \* the buildkite-agent annotate invocations, in order
    capFile,        \* the lines of the capture file
    entries,        \* the entries parseLine has returned, in order
    io,             \* the externally visible effects, in order
    cIn,            \* a function on its own: the input it is given (a
                    \* decoded line, a command line, a content item)
    cOut            \* a function on its own: what it gave

vars == <<pc, outputFile, consumed, line, entry, staticLineNum, clock, stdout,
          stderr, annots, capFile, entries, io, cIn, cOut>>

(***************************************************************************)
(* Bounds of the model.                                                    *)
(***************************************************************************)
MaxLines == 2
MaxElapsed == 1
MaxItems == 2

(***************************************************************************)
(* package strings                                                         *)
(***************************************************************************)
IsSpace(c) == c \in {" ", "\t", "\n", "\r"}

RECURSIVE TrimLeft(_)
TrimLeft(s) ==
    IF Len(s) > 0 /\ IsSpace(SubSeq(s, 1, 1))
    THEN TrimLeft(SubSeq(s, 2, Len(s)))
    ELSE s

RECURSIVE TrimRight(_)
TrimRight(s) ==
    IF Len(s) > 0 /\ IsSpace(SubSeq(s, Len(s), Len(s)))
    THEN TrimRight(SubSeq(s, 1, Len(s) - 1))
    ELSE s

TrimSpace(s) == TrimRight(TrimLeft(s))

HasPrefix(s, prefix) ==
    Len(s) >= Len(prefix) /\ SubSeq(s, 1, Len(prefix)) = prefix

\* strings.Split(s, "\n")
RECURSIVE Split(_)
Split(s) ==
    LET nl == {i \in 1..Len(s) : SubSeq(s, i, i) = "\n"}
    IN  IF nl = {} THEN <<s>>
        ELSE LET i == CHOOSE k \in nl : \A m \in nl : k <= m
             IN  <<SubSeq(s, 1, i - 1)>> \o Split(SubSeq(s, i + 1, Len(s)))

RECURSIVE Join(_, _)
Join(parts, sep) ==
    IF Len(parts) = 0 THEN ""
    ELSE IF Len(parts) = 1 THEN parts[1]
    ELSE parts[1] \o sep \o Join(Tail(parts), sep)

LowerLetters == "abcdefghijklmnopqrstuvwxyz"
UpperLetters == "ABCDEFGHIJKLMNOPQRSTUVWXYZ"

UpperChar(c) ==
    LET at == {i \in 1..Len(LowerLetters) : SubSeq(LowerLetters, i, i) = c}
    IN  IF at = {} THEN c
        ELSE LET i == CHOOSE k \in at : TRUE IN SubSeq(UpperLetters, i, i)

RECURSIVE ToUpper(_)
ToUpper(s) ==
    IF Len(s) = 0 THEN ""
    ELSE UpperChar(SubSeq(s, 1, 1)) \o ToUpper(SubSeq(s, 2, Len(s)))

\* fmt's %02d and %03d
Pad2(n) == IF n < 10 THEN "0" \o ToString(n) ELSE ToString(n)
Pad3(n) == IF n < 10 THEN "00" \o ToString(n)
           ELSE IF n < 100 THEN "0" \o ToString(n) ELSE ToString(n)

(***************************************************************************)
(* ANSI colour codes (without the ESC byte)                                *)
(***************************************************************************)
ColorReset == "[0m"
ColorBold == "[1m"
ColorDim == "[2m"
ColorRed == "[31m"
ColorGreen == "[32m"
ColorYellow == "[33m"
ColorBlue == "[34m"
ColorMagenta == "[35m"
ColorWhite == "[37m"
ColorGray == "[90m"

(***************************************************************************)
(* formatRelativeTime, on the whole seconds of the elapsed duration        *)
(***************************************************************************)
\* the three-field form chosen only after the first hour has passed
formatRelativeTimeAfterOneHour(totalSeconds) ==
    LET hours == totalSeconds \div 3600
        minutes == (totalSeconds % 3600) \div 60
        seconds == totalSeconds % 60
    IN  IF totalSeconds > 3600
        THEN Pad2(hours) \o ":" \o Pad2(minutes) \o ":" \o Pad2(seconds)
        ELSE Pad2(minutes) \o ":" \o Pad2(seconds)

formatRelativeTime(totalSeconds) ==
    LET hours == totalSeconds \div 3600
        minutes == (totalSeconds % 3600) \div 60
        seconds == totalSeconds % 60
    IN  IF hours > 0
        THEN Pad2(hours) \o ":" \o Pad2(minutes) \o ":" \o Pad2(seconds)
        ELSE Pad2(minutes) \o ":" \o Pad2(seconds)

(***************************************************************************)
(* Decoded JSON values (interface{}): nil, a string, or an object of       *)
(* string members, its keys in the sorted order encoding/json writes.      *)
(***************************************************************************)
JNil == [t |-> "nil", s |-> "", kv |-> <<>>]
JString(s) == [t |-> "string", s |-> s, kv |-> <<>>]
JObject(kv) == [t |-> "object", s |-> "", kv |-> kv]

Quote(s) == "\"" \o s \o "\""

RECURSIVE members(_, _, _)
members(kv, colon, sep) ==
    IF Len(kv) = 0 THEN ""
    ELSE Quote(kv[1][1]) \o colon \o Quote(kv[1][2])
         \o (IF Len(kv) > 1 THEN sep \o members(Tail(kv), colon, sep) ELSE "")

\* json.Marshal(v)
Marshal(v) ==
    CASE v.t = "nil" -> "null"
      [] v.t = "string" -> Quote(v.s)
      [] OTHER -> "{" \o members(v.kv, ":", ",") \o "}"

\* json.MarshalIndent(v, "", "  ")
MarshalIndent(v) ==
    CASE v.t = "nil" -> "null"
      [] v.t = "string" -> Quote(v.s)
      [] OTHER -> IF Len(v.kv) = 0 THEN "{}"
                  ELSE "{\n  " \o members(v.kv, ": ", ",\n  ") \o "\n}"

\* json.Valid / json.Unmarshal into interface{} of a tool result's text:
\* the texts of the model that are JSON, with the value they decode to.
jsonText(s) ==
    CASE s = "{\"ok\":\"1\"}" -> [ok |-> TRUE, v |-> JObject(<<<<"ok", "1">>>>)]
      [] s = "\"quoted\"" -> [ok |-> TRUE, v |-> JString("quoted")]
      [] OTHER -> [ok |-> FALSE, v |-> JNil]

(***************************************************************************)
(* type Message and its content items                                      *)
(***************************************************************************)
Item(type, text, name, input, content, isError) ==
    [Type |-> type, Text |-> text, Name |-> name, Input |-> input,
     Content |-> content, IsError |-> isError]

MessageOf(type, subtype, sessionID, model, content) ==
    [Type |-> type, Subtype |-> subtype, SessionID |-> sessionID,
     Model |-> model, Content |-> content]

ZeroMessage == MessageOf("", "", "", "", <<>>)

(***************************************************************************)
(* Progressive disclosure, as written out twice in                         *)
(* extractCleanJSONContentWithErrorCheck (tool inputs, tool results).      *)
(***************************************************************************)
maxPreviewLengthInput == 300
maxPreviewLengthResult == 400

\* the truncation that loses the character at the split point
disclosureDropsSplitChar(s, maxPreviewLength) ==
    LET lines == Split(s)
        needsDisclosure == Len(lines) > 2 \/ Len(s) > maxPreviewLength
    IN  IF ~needsDisclosure
        THEN [needs |-> FALSE, preview |-> s, remaining |-> ""]
        ELSE IF Len(lines) > 2
        THEN [needs |-> TRUE,
              preview |-> Join(SubSeq(lines, 1, 2), "\n"),
              remaining |-> Join(SubSeq(lines, 3, Len(lines)), "\n")]
        ELSE [needs |-> TRUE,
              preview |-> SubSeq(s, 1, maxPreviewLength) \o "...",
              remaining |-> SubSeq(s, maxPreviewLength + 2, Len(s))]

\* the disclosure that starts at the threshold instead of above it
disclosureAtThreshold(s, maxPreviewLength) ==
    LET lines == Split(s)
        needsDisclosure == Len(lines) > 2 \/ Len(s) >= maxPreviewLength
    IN  IF ~needsDisclosure
        THEN [needs |-> FALSE, preview |-> s, remaining |-> ""]
        ELSE IF Len(lines) > 2
        THEN [needs |-> TRUE,
              preview |-> Join(SubSeq(lines, 1, 2), "\n"),
              remaining |-> Join(SubSeq(lines, 3, Len(lines)), "\n")]
        ELSE [needs |-> TRUE,
              preview |-> SubSeq(s, 1, maxPreviewLength - 1) \o "...",
              remaining |-> SubSeq(s, maxPreviewLength, Len(s))]

\* the preview of a text of many lines holds its first three lines
disclosureThreeLines(s, maxPreviewLength) ==
    LET lines == Split(s)
        needsDisclosure == Len(lines) > 2 \/ Len(s) > maxPreviewLength
    IN  IF ~needsDisclosure
        THEN [needs |-> FALSE, preview |-> s, remaining |-> ""]
        ELSE IF Len(lines) > 2
        THEN [needs |-> TRUE,
              preview |-> Join(SubSeq(lines, 1, 3), "\n"),
              remaining |-> Join(SubSeq(lines, 4, Len(lines)), "\n")]
        ELSE IF Len(s) > maxPreviewLength
        THEN [needs |-> TRUE,
              preview |-> SubSeq(s, 1, maxPreviewLength) \o "...",
              remaining |-> SubSeq(s, maxPreviewLength + 1, Len(s))]
        ELSE [needs |-> TRUE, preview |-> s, remaining |-> ""]

\* the preview and the remainder of s, as both branches compute them
disclosure(s, maxPreviewLength) ==
    LET lines == Split(s)
        needsDisclosure == Len(lines) > 2 \/ Len(s) > maxPreviewLength
    IN  IF ~needsDisclosure
        THEN [needs |-> FALSE, preview |-> s, remaining |-> ""]
        ELSE IF Len(lines) > 2
        THEN [needs |-> TRUE,
              preview |-> Join(SubSeq(lines, 1, 2), "\n"),
              remaining |-> Join(SubSeq(lines, 3, Len(lines)), "\n")]
        ELSE IF Len(s) > maxPreviewLength
        THEN [needs |-> TRUE,
              preview |-> SubSeq(s, 1, maxPreviewLength) \o "...",
              remaining |-> SubSeq(s, maxPreviewLength + 1, Len(s))]
        ELSE [needs |-> TRUE, preview |-> s, remaining |-> ""]

(***************************************************************************)
(* extractCleanJSONContentWithErrorCheck: the annotation's classifier      *)
(***************************************************************************)
\* case "tool_use": the tool description with its indented input
toolUseClean(it) ==
    LET toolInput == IF it.Input.t # "nil" THEN MarshalIndent(it.Input) ELSE ""
        toolDesc == ":wrench: Using tool: " \o it.Name
    IN  IF toolInput # "" /\ toolInput # "{}"
        THEN LET d == disclosure(toolInput, maxPreviewLengthInput)
             IN  IF ~d.needs THEN toolDesc \o " with " \o toolInput
                 ELSE IF d.remaining # ""
                 THEN toolDesc \o " with " \o d.preview
                      \o "\n\n<details>\n<summary>Show more input...</summary>\n\n'''json\n"
                      \o d.remaining \o "\n'''\n\n</details>"
                 ELSE toolDesc \o " with " \o d.preview
        ELSE toolDesc

\* the text of a tool result: its text (re-indented when it is JSON), or
\* else its content value, or else nothing
resultContentOf(it) ==
    IF it.Text # ""
    THEN IF jsonText(it.Text).ok THEN MarshalIndent(jsonText(it.Text).v)
         ELSE it.Text
    ELSE IF it.Content.t # "nil" THEN MarshalIndent(it.Content)
    ELSE ""

\* contentItem.Type == "tool_result": the part it contributes
toolResultClean(it) ==
    LET resultContent == resultContentOf(it)
        errorIndicator == IF it.IsError THEN ":x: Tool error:"
                          ELSE ":white_check_mark: Tool result:"
    IN  IF resultContent # ""
        THEN LET d == disclosure(resultContent, maxPreviewLengthResult)
             IN  IF ~d.needs THEN errorIndicator \o "\n" \o resultContent
                 ELSE IF d.remaining # ""
                 THEN errorIndicator \o "\n" \o d.preview
                      \o "\n\n<details>\n<summary>Show more...</summary>\n\n'''\n"
                      \o d.remaining \o "\n'''\n\n</details>"
                 ELSE errorIndicator \o "\n" \o d.preview
        ELSE ":white_check_mark: Tool result received"

\* a text item with empty text contributes an empty part
RECURSIVE assistantPartsCleanKeepsEmpty(_)
assistantPartsCleanKeepsEmpty(items) ==
    IF Len(items) = 0 THEN <<>>
    ELSE LET it == Head(items)
             rest == assistantPartsCleanKeepsEmpty(Tail(items))
         IN  CASE it.Type = "text" -> <<it.Text>> \o rest
               [] it.Type = "tool_use" -> <<toolUseClean(it)>> \o rest
               [] OTHER -> rest

RECURSIVE assistantPartsClean(_)
assistantPartsClean(items) ==
    IF Len(items) = 0 THEN <<>>
    ELSE LET it == Head(items)
             rest == assistantPartsClean(Tail(items))
         IN  CASE it.Type = "text" ->
                    IF it.Text # "" THEN <<it.Text>> \o rest ELSE rest
               [] it.Type = "tool_use" -> <<toolUseClean(it)>> \o rest
               [] OTHER -> rest

RECURSIVE userPartsClean(_)
userPartsClean(items) ==
    IF Len(items) = 0 THEN <<>>
    ELSE LET it == Head(items)
             rest == userPartsClean(Tail(items))
         IN  IF it.Type = "tool_result" THEN <<toolResultClean(it)>> \o rest
             ELSE IF it.Text # "" THEN <<it.Text>> \o rest
             ELSE rest

\* hasError of a user message set for every item of any type that is marked
\* is_error
userHasErrorAnyItem(items) ==
    \E i \in 1..Len(items) : items[i].IsError

\* hasError of a user message: set inside the tool_result branch only
userHasError(items) ==
    \E i \in 1..Len(items) : items[i].Type = "tool_result" /\ items[i].IsError

extractCleanJSONContentWithErrorCheck(msg) ==
    CASE msg.Type = "system" ->
            IF msg.Subtype = "init"
            THEN [speaker |-> "SYSTEM",
                  content |-> "Session initialized (ID: " \o msg.SessionID
                              \o ", Model: " \o msg.Model \o ")",
                  hasError |-> FALSE]
            ELSE [speaker |-> "SYSTEM", content |-> "System message",
                  hasError |-> FALSE]
      [] msg.Type = "assistant" ->
            [speaker |-> "ASSISTANT",
             content |-> Join(assistantPartsClean(msg.Content), "\n\n"),
             hasError |-> FALSE]
      [] msg.Type = "user" ->
            [speaker |-> "USER",
             content |-> Join(userPartsClean(msg.Content), "\n\n"),
             hasError |-> userHasError(msg.Content)]
      [] OTHER ->
            [speaker |-> ToUpper(msg.Type), content |-> "Unknown message type",
             hasError |-> FALSE]

(***************************************************************************)
(* formatJSONMessage: the transcript's classifier                          *)
(***************************************************************************)
toolUseColored(it) ==
    LET toolInput == IF it.Input.t # "nil" THEN Marshal(it.Input) ELSE ""
    IN  ColorGreen \o ":wrench: Using tool: " \o it.Name
        \o (IF toolInput # "" /\ toolInput # "{}" THEN " with " \o toolInput
            ELSE "")
        \o ColorReset

toolResultColored(it) ==
    LET resultContent == resultContentOf(it)
        errorIndicator ==
            IF it.IsError THEN ColorRed \o ":x: Tool error:" \o ColorReset
            ELSE ColorMagenta \o ":white_check_mark: Tool result:" \o ColorReset
    IN  IF resultContent # "" THEN errorIndicator \o "\n" \o resultContent
        ELSE ColorMagenta \o ":white_check_mark: Tool result received"
             \o ColorReset

\* the parts of an assistant message collected last item first
RECURSIVE assistantPartsReversed(_)
assistantPartsReversed(items) ==
    IF Len(items) = 0 THEN <<>>
    ELSE LET it == Head(items)
             rest == assistantPartsReversed(Tail(items))
         IN  CASE it.Type = "text" ->
                    IF it.Text # "" THEN rest \o <<it.Text>> ELSE rest
               [] it.Type = "tool_use" -> rest \o <<toolUseColored(it)>>
               [] OTHER -> rest

RECURSIVE assistantParts(_)
assistantParts(items) ==
    IF Len(items) = 0 THEN <<>>
    ELSE LET it == Head(items)
             rest == assistantParts(Tail(items))
         IN  CASE it.Type = "text" ->
                    IF it.Text # "" THEN <<it.Text>> \o rest ELSE rest
               [] it.Type = "tool_use" -> <<toolUseColored(it)>> \o rest
               [] OTHER -> rest

\* a user message's items other than tool results contribute nothing
RECURSIVE userPartsResultsOnly(_)
userPartsResultsOnly(items) ==
    IF Len(items) = 0 THEN <<>>
    ELSE LET it == Head(items)
             rest == userPartsResultsOnly(Tail(items))
         IN  IF it.Type = "tool_result" THEN <<toolResultColored(it)>> \o rest
             ELSE rest

RECURSIVE userParts(_)
userParts(items) ==
    IF Len(items) = 0 THEN <<>>
    ELSE LET it == Head(items)
             rest == userParts(Tail(items))
         IN  IF it.Type = "tool_result" THEN <<toolResultColored(it)>> \o rest
             ELSE IF it.Text # "" THEN <<it.Text>> \o rest
             ELSE rest

formatJSONMessage(msg) ==
    CASE msg.Type = "system" ->
            IF msg.Subtype = "init"
            THEN [speaker |-> "SYSTEM",
                  content |-> "Session initialized (ID: " \o msg.SessionID
                              \o ", Model: " \o msg.Model \o ")"]
            ELSE [speaker |-> "SYSTEM", content |-> "System message"]
      [] msg.Type = "assistant" ->
            [speaker |-> "ASSISTANT",
             content |-> Join(assistantParts(msg.Content), "\n")]
      [] msg.Type = "user" ->
            [speaker |-> "USER",
             content |-> Join(userParts(msg.Content), "\n")]
      [] OTHER ->
            [speaker |-> ToUpper(msg.Type), content |-> "Unknown message type"]

(***************************************************************************)
(* The lines of the modelled stream, and encoding/json's decoding of them  *)
(***************************************************************************)
LineEmpty == ""
LineSpaces == "  "
LinePadded == "  not json at all "
LineBroken == "{oops"
LineInit ==
    "{\"type\":\"system\",\"subtype\":\"init\",\"session_id\":\"abc123\",\"model\":\"m1\"}"
LineNoContent == "{\"type\":\"assistant\",\"message\":{\"content\":[]}}"
LineToolError ==
    "{\"type\":\"user\",\"message\":{\"content\":[{\"type\":\"tool_result\",\"is_error\":true,\"text\":\"boom\"}]}}"
LineResult == "{\"type\":\"result\"}"

StreamLines ==
    {LineEmpty, LineSpaces, LinePadded, LineBroken, LineInit, LineNoContent,
     LineToolError, LineResult}

\* json.Unmarshal([]byte(s), &msg): err == nil and msg, or err != nil
Unmarshal(s) ==
    CASE s = LineInit ->
            [ok |-> TRUE, msg |-> MessageOf("system", "init", "abc123", "m1", <<>>)]
      [] s = LineNoContent ->
            [ok |-> TRUE, msg |-> MessageOf("assistant", "", "", "", <<>>)]
      [] s = LineToolError ->
            [ok |-> TRUE,
             msg |-> MessageOf("user", "", "", "",
                        <<Item("tool_result", "boom", "", JNil, JNil, TRUE)>>)]
      [] s = LineResult ->
            [ok |-> TRUE, msg |-> MessageOf("result", "", "", "", <<>>)]
      [] OTHER -> [ok |-> FALSE, msg |-> ZeroMessage]

\* json.Unmarshal into interface{} followed by json.MarshalIndent
prettyLine(s) ==
    CASE s = LineInit ->
            [ok |-> TRUE,
             text |-> "{\n  \"model\": \"m1\",\n  \"session_id\": \"abc123\",\n  \"subtype\": \"init\",\n  \"type\": \"system\"\n}"]
      [] s = LineNoContent ->
            [ok |-> TRUE,
             text |-> "{\n  \"message\": {\n    \"content\": []\n  },\n  \"type\": \"assistant\"\n}"]
      [] s = LineToolError ->
            [ok |-> TRUE,
             text |-> "{\n  \"message\": {\n    \"content\": [\n      {\n        \"is_error\": true,\n        \"text\": \"boom\",\n        \"type\": \"tool_result\"\n      }\n    ]\n  },\n  \"type\": \"user\"\n}"]
      [] s = LineResult ->
            [ok |-> TRUE, text |-> "{\n  \"type\": \"result\"\n}"]
      [] OTHER -> [ok |-> FALSE, text |-> ""]

(***************************************************************************)
(* createBuildkiteAnnotation                                               *)
(***************************************************************************)
\* no message type is skipped
classifyAnnotationNoSkip(rawJSONLine, dec) ==
    IF HasPrefix(rawJSONLine, "{") /\ dec.ok
    THEN LET c == extractCleanJSONContentWithErrorCheck(dec.msg)
         IN  [skip |-> FALSE, speaker |-> c.speaker, content |-> c.content,
              hasError |-> c.hasError]
    ELSE [skip |-> FALSE, speaker |-> "SYSTEM", content |-> rawJSONLine,
          hasError |-> FALSE]

\* speaker, content and hasError of the annotation, and whether the
\* annotation is skipped, from the trimmed line and its decoding
classifyAnnotation(rawJSONLine, dec) ==
    IF HasPrefix(rawJSONLine, "{") /\ dec.ok
    THEN LET c == extractCleanJSONContentWithErrorCheck(dec.msg)
         IN  [skip |-> c.content = "Unknown message type",
              speaker |-> c.speaker, content |-> c.content,
              hasError |-> c.hasError]
    ELSE [skip |-> FALSE, speaker |-> "SYSTEM", content |-> rawJSONLine,
          hasError |-> FALSE]

\* the switch on the speaker with USER always styled success
annotationStyleNoError(speaker, hasError) ==
    CASE speaker = "ASSISTANT" ->
            [header |-> ":robot: **ASSISTANT**:\n\n", style |-> "info"]
      [] speaker = "USER" ->
            [header |-> ":bust_in_silhouette: **USER**:\n\n", style |-> "success"]
      [] speaker = "SYSTEM" ->
            [header |-> ":gear: **SYSTEM**:\n\n", style |-> "warning"]
      [] OTHER ->
            [header |-> "**" \o speaker \o "**:\n\n", style |-> "info"]

\* the switch on the speaker: the header line and the style
annotationStyle(speaker, hasError) ==
    CASE speaker = "ASSISTANT" ->
            [header |-> ":robot: **ASSISTANT**:\n\n", style |-> "info"]
      [] speaker = "USER" ->
            [header |-> ":bust_in_silhouette: **USER**:\n\n",
             style |-> IF hasError THEN "error" ELSE "success"]
      [] speaker = "SYSTEM" ->
            [header |-> ":gear: **SYSTEM**:\n\n", style |-> "warning"]
      [] OTHER ->
            [header |-> "**" \o speaker \o "**:\n\n", style |-> "info"]

NoAnnotation == [run |-> FALSE, style |-> "", context |-> "", body |-> ""]

\* the body of createBuildkiteAnnotation after the blank check, given what
\* encoding/json makes of the line: the command it runs, if it runs one
annotationOf(rawJSONLine, dec, pretty, lineNumber, timestamp) ==
    LET c == classifyAnnotation(rawJSONLine, dec)
        st == annotationStyle(c.speaker, c.hasError)
    IN  IF c.skip THEN NoAnnotation
        ELSE [run |-> TRUE,
              style |-> st.style,
              context |-> "chat-message-" \o ToString(lineNumber),
              body |-> "**Message " \o ToString(lineNumber) \o "** - '"
                       \o timestamp \o "'\n\n" \o st.header \o c.content
                       \o "\n\n<details>\n<summary>Show JSON</summary>\n\n'''json\n"
                       \o (IF HasPrefix(rawJSONLine, "{") /\ pretty.ok
                           THEN pretty.text ELSE rawJSONLine)
                       \o "\n'''\n\n</details>"]

\* every call made under the context of the first message
createBuildkiteAnnotationSameContext(rawLine, lineNumber, timestamp) ==
    LET rawJSONLine == TrimSpace(rawLine)
    IN  IF rawJSONLine = "" THEN NoAnnotation
        ELSE annotationOf(rawJSONLine, Unmarshal(rawJSONLine),
                          prettyLine(rawJSONLine), 1, timestamp)

\* createBuildkiteAnnotation(rawJSONLine, lineNumber, timestamp): the
\* command it runs, if it runs one
createBuildkiteAnnotation(rawLine, lineNumber, timestamp) ==
    LET rawJSONLine == TrimSpace(rawLine)
    IN  IF rawJSONLine = "" THEN NoAnnotation
        ELSE annotationOf(rawJSONLine, Unmarshal(rawJSONLine),
                          prettyLine(rawJSONLine), lineNumber, timestamp)

\* cmd.Run() failed and the failure ends the run
cmdRunFailedFatal(log) ==
    [stderr |-> Append(log, "Warning: Failed to create Buildkite annotation"),
     fatal |-> TRUE]

\* cmd.Run() failed: log.Printf, and createBuildkiteAnnotation returns
cmdRunFailed(log) ==
    [stderr |-> Append(log, "Warning: Failed to create Buildkite annotation"),
     fatal |-> FALSE]

(***************************************************************************)
(* parseLine                                                               *)
(***************************************************************************)
\* an object line that does not decode is given no content
classifyEntryDropsBroken(content, dec) ==
    IF HasPrefix(content, "{")
    THEN IF dec.ok
         THEN [IsJSON |-> TRUE, Speaker |-> formatJSONMessage(dec.msg).speaker,
               Content |-> formatJSONMessage(dec.msg).content]
         ELSE [IsJSON |-> FALSE, Speaker |-> "SYSTEM", Content |-> ""]
    ELSE [IsJSON |-> FALSE, Speaker |-> "SYSTEM", Content |-> content]

\* speaker, content and IsJSON of the entry, from the trimmed line and its
\* decoding
classifyEntry(content, dec) ==
    IF HasPrefix(content, "{")
    THEN IF dec.ok
         THEN [IsJSON |-> TRUE, Speaker |-> formatJSONMessage(dec.msg).speaker,
               Content |-> formatJSONMessage(dec.msg).content]
         ELSE [IsJSON |-> FALSE, Speaker |-> "SYSTEM", Content |-> content]
    ELSE [IsJSON |-> FALSE, Speaker |-> "SYSTEM", Content |-> content]

ChatEntry(lineNumber, rawLine, timestamp, c) ==
    [LineNumber |-> lineNumber, Speaker |-> c.Speaker, Content |-> c.Content,
     Timestamp |-> timestamp, IsJSON |-> c.IsJSON, RawLine |-> rawLine]

\* the counter is advanced before the blank check
parseLineCountsBlank(rawLine, lineNum, elapsed) ==
    LET ln == TrimSpace(rawLine)
    IN  IF ln = "" THEN [entry |-> <<>>, staticLineNum |-> lineNum + 1]
        ELSE [entry |-> <<ChatEntry(lineNum + 1, ln, formatRelativeTime(elapsed),
                                   classifyEntry(ln, Unmarshal(ln)))>>,
              staticLineNum |-> lineNum + 1]

\* the speaker of an entry taken from the line before it once a line has
\* been numbered
parseLineRemembers(rawLine, lineNum, elapsed) ==
    LET ln == TrimSpace(rawLine)
        c == classifyEntry(ln, Unmarshal(ln))
    IN  IF ln = "" THEN [entry |-> <<>>, staticLineNum |-> lineNum]
        ELSE [entry |-> <<ChatEntry(lineNum + 1, ln, formatRelativeTime(elapsed),
                                   IF lineNum = 0 THEN c
                                   ELSE [c EXCEPT !.Speaker = "SYSTEM"])>>,
              staticLineNum |-> lineNum + 1]

\* the entry is numbered before the counter is advanced
parseLineZeroBased(rawLine, lineNum, elapsed) ==
    LET ln == TrimSpace(rawLine)
    IN  IF ln = "" THEN [entry |-> <<>>, staticLineNum |-> lineNum]
        ELSE [entry |-> <<ChatEntry(lineNum, ln, formatRelativeTime(elapsed),
                                   classifyEntry(ln, Unmarshal(ln)))>>,
              staticLineNum |-> lineNum + 1]

\* parseLine(line) with staticLineNum = lineNum and time.Since(startTime) =
\* elapsed seconds: the entry (<<>> for nil) and the counter afterwards
parseLine(rawLine, lineNum, elapsed) ==
    LET ln == TrimSpace(rawLine)
    IN  IF ln = "" THEN [entry |-> <<>>, staticLineNum |-> lineNum]
        ELSE [entry |-> <<ChatEntry(lineNum + 1, ln, formatRelativeTime(elapsed),
                                   classifyEntry(ln, Unmarshal(ln)))>>,
              staticLineNum |-> lineNum + 1]

(***************************************************************************)
(* printSingleEntry: the lines it writes to standard output                *)
(***************************************************************************)
speakerColors(speaker) ==
    CASE speaker = "ASSISTANT" ->
            [speakerColor |-> ColorGreen \o ColorBold, contentColor |-> ColorGreen]
      [] speaker = "USER" ->
            [speakerColor |-> ColorBlue \o ColorBold, contentColor |-> ColorBlue]
      [] speaker = "SYSTEM" ->
            [speakerColor |-> ColorYellow \o ColorBold, contentColor |-> ColorGray]
      [] OTHER ->
            [speakerColor |-> ColorWhite, contentColor |-> ColorWhite]

RECURSIVE printLines(_, _, _, _)
printLines(e, prefix, lines, i) ==
    IF i > Len(lines) THEN <<>>
    ELSE <<[kind |-> IF i = 1 THEN "first" ELSE "more",
            LineNumber |-> e.LineNumber,
            Speaker |-> e.Speaker,
            prefix |-> IF i = 1 THEN prefix ELSE "",
            color |-> speakerColors(e.Speaker).contentColor,
            text |-> lines[i]]>>
         \o printLines(e, prefix, lines, i + 1)

printSingleEntry(e) ==
    IF e.Content = "" THEN <<>>
    ELSE LET prefix == ColorGray \o "[" \o Pad3(e.LineNumber) \o "] " \o ColorDim
                       \o "[" \o e.Timestamp \o "]" \o ColorReset \o " "
                       \o speakerColors(e.Speaker).speakerColor \o e.Speaker
                       \o ":" \o ColorReset
         IN  printLines(e, prefix, Split(e.Content), 1)
             \o (IF e.IsJSON
                 THEN <<[kind |-> "blank", LineNumber |-> e.LineNumber,
                         Speaker |-> e.Speaker, prefix |-> "", color |-> "",
                         text |-> ""]>>
                 ELSE <<>>)

(***************************************************************************)
(* parseAndStreamOutput and parseAndStreamOutputWithFile: the loop         *)
(***************************************************************************)
\* the loop body with the annotation sent before the entry is printed
loopStepAnnotateFirst(at, capturing, hasEntry) ==
    CASE at = "scan" -> IF capturing THEN "capture" ELSE "parse"
      [] at = "capture" -> "parse"
      [] at = "parse" -> IF hasEntry THEN "annotate" ELSE "scan"
      [] at = "annotate" -> "print"
      [] OTHER -> "scan"

\* the statement that follows statement `at` of the loop body: with -o the
\* raw line is written first; a nil entry skips printing and annotating
loopStep(at, capturing, hasEntry) ==
    CASE at = "scan" -> IF capturing THEN "capture" ELSE "parse"
      [] at = "capture" -> "parse"
      [] at = "parse" -> IF hasEntry THEN "print" ELSE "scan"
      [] at = "print" -> "annotate"
      [] OTHER -> "scan"

\* the line is written as parseLine will see it, trimmed
FprintlnTrimmed(file, s) == Append(file, TrimSpace(s))

\* fmt.Fprintln(outputFile, line): the file gains the line as it was read
Fprintln(file, s) == Append(file, s)

Effect(op) == [op |-> op, idx |-> Len(consumed)]

\* scanner.Scan() returns true; line := scanner.Text()
ScanLine ==
    /\ pc = "scan"
    /\ Len(consumed) < MaxLines
    /\ \E l \in StreamLines :
          /\ line' = l
          /\ consumed' = Append(consumed, l)
          /\ io' = Append(io, [op |-> "read", idx |-> Len(consumed) + 1])
    /\ pc' = loopStep("scan", outputFile # "", FALSE)
    /\ UNCHANGED <<outputFile, entry, staticLineNum, clock, stdout, stderr,
                   annots, capFile, entries, cIn, cOut>>

\* scanner.Scan() returns false at the end of the input; scanner.Err() is nil
ScanEOF ==
    /\ pc = "scan"
    /\ pc' = "done"
    /\ UNCHANGED <<outputFile, consumed, line, entry, staticLineNum, clock,
                   stdout, stderr, annots, capFile, entries, io, cIn, cOut>>

\* time passes while the scanner waits for input
Tick ==
    /\ pc = "scan"
    /\ clock < MaxElapsed
    /\ clock' = clock + 1
    /\ UNCHANGED <<pc, outputFile, consumed, line, entry, staticLineNum, stdout,
                   stderr, annots, capFile, entries, io, cIn, cOut>>

\* fmt.Fprintln(outputFile, line)
Capture ==
    /\ pc = "capture"
    /\ capFile' = Fprintln(capFile, line)
    /\ io' = Append(io, Effect("capture"))
    /\ pc' = loopStep("capture", outputFile # "", FALSE)
    /\ UNCHANGED <<outputFile, consumed, line, entry, staticLineNum, clock,
                   stdout, stderr, annots, entries, cIn, cOut>>

\* entry := parseLine(line)
Parse ==
    /\ pc = "parse"
    /\ LET r == parseLine(line, staticLineNum, clock)
       IN  /\ entry' = r.entry
           /\ staticLineNum' = r.staticLineNum
           /\ entries' = entries \o r.entry
           /\ pc' = loopStep("parse", outputFile # "", Len(r.entry) > 0)
    /\ UNCHANGED <<outputFile, consumed, line, clock, stdout, stderr, annots,
                   capFile, io, cIn, cOut>>

\* printSingleEntry(*entry)
PrintEntry ==
    /\ pc = "print"
    /\ LET out == printSingleEntry(entry[1])
       IN  /\ stdout' = stdout \o out
           /\ io' = IF Len(out) > 0 THEN Append(io, Effect("print")) ELSE io
    /\ pc' = loopStep("print", outputFile # "", TRUE)
    /\ UNCHANGED <<outputFile, consumed, line, entry, staticLineNum, clock,
                   stderr, annots, capFile, entries, cIn, cOut>>

\* createBuildkiteAnnotation(line, entry.LineNumber, entry.Timestamp): when
\* it gets as far as cmd.Run(), the command succeeds or fails
Annotate ==
    /\ pc = "annotate"
    /\ LET a == createBuildkiteAnnotation(line, entry[1].LineNumber,
                                          entry[1].Timestamp)
       IN  IF ~a.run
           THEN /\ pc' = loopStep("annotate", outputFile # "", TRUE)
                /\ UNCHANGED <<annots, stderr, io>>
           ELSE \E ok \in BOOLEAN :
                  /\ annots' = Append(annots,
                                  [style |-> a.style, context |-> a.context,
                                   body |-> a.body])
                  /\ io' = Append(io, Effect("annotate"))
                  /\ IF ok
                     THEN /\ stderr' = stderr
                          /\ pc' = loopStep("annotate", outputFile # "", TRUE)
                     ELSE /\ stderr' = cmdRunFailed(stderr).stderr
                          /\ pc' = IF cmdRunFailed(stderr).fatal THEN "fatal"
                                   ELSE loopStep("annotate", outputFile # "", TRUE)
    /\ UNCHANGED <<outputFile, consumed, line, entry, staticLineNum, clock,
                   stdout, capFile, entries, cIn, cOut>>

\* main has parsed its arguments, opened the input and printed the header
InitStream ==
    /\ pc = "scan"
    /\ consumed = <<>>
    /\ line = ""
    /\ entry = <<>>
    /\ staticLineNum = 0
    /\ clock = 0
    /\ stdout = <<>>
    /\ stderr = <<>>
    /\ annots = <<>>
    /\ capFile = <<>>
    /\ entries = <<>>
    /\ io = <<>>

NoInput ==
    [raw |-> "", dec |-> [ok |-> FALSE, msg |-> ZeroMessage],
     pretty |-> [ok |-> FALSE, text |-> ""]]
NoOutput == [done |-> FALSE]

Init ==
    /\ InitStream
    /\ outputFile \in {"", "out.jsonl"}
    /\ cIn = NoInput
    /\ cOut = NoOutput

Next ==
    \/ ScanLine
    \/ ScanEOF
    \/ Tick
    \/ Capture
    \/ Parse
    \/ PrintEntry
    \/ Annotate

Spec == Init /\ [][Next]_vars

(***************************************************************************)
(* The classifiers on their own: one trimmed, non-blank line with what     *)
(* encoding/json makes of it, given to the transcript's classifier and to  *)
(* the annotation's.                                                       *)
(***************************************************************************)
RECURSIVE SeqsUpTo(_, _)
SeqsUpTo(S, n) ==
    IF n = 0 THEN {<<>>}
    ELSE SeqsUpTo(S, n - 1)
         \cup {Append(q, x) : q \in {r \in SeqsUpTo(S, n - 1) : Len(r) = n - 1},
                              x \in S}

SomeInput == JObject(<<<<"command", "ls">>>>)
SomeContent == JObject(<<<<"a", "1">>, <<"b", "2">>>>)

ContentItems ==
    {Item("text", "hi", "", JNil, JNil, FALSE),
     Item("text", "", "", JNil, JNil, FALSE),
     Item("text", "Unknown message type", "", JNil, JNil, FALSE),
     Item("text", "oops", "", JNil, JNil, TRUE),
     Item("tool_use", "", "Bash", SomeInput, JNil, FALSE),
     Item("tool_use", "", "Read", JNil, JNil, FALSE),
     Item("tool_result", "boom", "", JNil, JNil, TRUE),
     Item("tool_result", "done", "", JNil, JNil, FALSE),
     Item("tool_result", "", "", JNil, JNil, TRUE),
     Item("tool_result", "", "", JNil, SomeContent, FALSE),
     Item("tool_result", "{\"ok\":\"1\"}", "", JNil, JNil, FALSE)}

Kinds ==
    {<<"system", "init">>, <<"system", "">>, <<"assistant", "">>,
     <<"user", "">>, <<"result", "">>, <<"", "">>}

Messages ==
    {MessageOf(k[1], k[2], "abc123", "m1", items) :
        k \in Kinds, items \in SeqsUpTo(ContentItems, MaxItems)}

\* an object line: of its text the classifiers read the first character, the
\* rest reaches them as the decoded message
ObjectLine == "{...}"

ClassifierInputs ==
    {[raw |-> "not json at all", dec |-> [ok |-> FALSE, msg |-> ZeroMessage],
      pretty |-> [ok |-> FALSE, text |-> ""]],
     [raw |-> LineBroken, dec |-> [ok |-> FALSE, msg |-> ZeroMessage],
      pretty |-> [ok |-> FALSE, text |-> ""]]}
    \cup {[raw |-> ObjectLine, dec |-> [ok |-> TRUE, msg |-> m],
           pretty |-> [ok |-> TRUE, text |-> ObjectLine]] : m \in Messages}

InitClassify ==
    /\ InitStream
    /\ outputFile = ""
    /\ cIn \in ClassifierInputs
    /\ cOut = NoOutput

Classify ==
    /\ ~cOut.done
    /\ cOut' = [done |-> TRUE,
                entry |-> ChatEntry(1, cIn.raw, formatRelativeTime(0),
                                    classifyEntry(cIn.raw, cIn.dec)),
                annotation |-> classifyAnnotation(cIn.raw, cIn.dec),
                call |-> annotationOf(cIn.raw, cIn.dec, cIn.pretty, 1,
                                      formatRelativeTime(0))]
    /\ UNCHANGED <<cIn, pc, outputFile, consumed, line, entry, staticLineNum,
                   clock, stdout, stderr, annots, capFile, entries, io>>

NextClassify == Classify

SpecClassify == InitClassify /\ [][NextClassify]_vars

(***************************************************************************)
(* Vocabulary of the properties                                            *)
(***************************************************************************)
\* a line that is empty once its surrounding whitespace is removed
Blank(l) == \A i \in 1..Len(l) : IsSpace(SubSeq(l, i, i))

NonBlankLines(ls) == SelectSeq(ls, LAMBDA l : ~Blank(l))

\* the lines parseLine has seen
Parsed == IF pc \in {"capture", "parse"}
          THEN SubSeq(consumed, 1, Len(consumed) - 1)
          ELSE consumed

Rank(op) ==
    CASE op = "read" -> 0
      [] op = "capture" -> 1
      [] op = "print" -> 2
      [] OTHER -> 3

\* the effects of kind op, as the indexes of the lines they belong to
EffectsOf(op) == {io[k].idx : k \in {n \in 1..Len(io) : io[n].op = op}}

C2_OneLineAtATime ==
    /\ \A i, j \in 1..Len(io) :
          i < j =>
            \/ io[i].idx < io[j].idx
            \/ io[i].idx = io[j].idx /\ Rank(io[i].op) < Rank(io[j].op)
    /\ \A i, j \in 1..Len(stdout) :
          i < j => stdout[i].LineNumber <= stdout[j].LineNumber
    /\ \A i, j \in 1..Len(annots) :
          i < j =>
            \E m, n \in 1..staticLineNum :
               /\ m < n
               /\ annots[i].context = "chat-message-" \o ToString(m)
               /\ annots[j].context = "chat-message-" \o ToString(n)
    /\ Cardinality(EffectsOf("annotate")) = Len(annots)

C2_Witness ==
    \E k \in 1..Len(io) :
       /\ k + 2 <= Len(io)
       /\ io[k] = [op |-> "print", idx |-> 1]
       /\ io[k + 1] = [op |-> "annotate", idx |-> 1]
       /\ io[k + 2] = [op |-> "read", idx |-> 2]

\* a line for which createBuildkiteAnnotation runs the annotate command, and
\* one for which printSingleEntry prints
WantsAnnotation(l) ==
    /\ ~Blank(l)
    /\ ~(Unmarshal(TrimSpace(l)).ok
         /\ Unmarshal(TrimSpace(l)).msg.Type \notin {"system", "assistant", "user"})
Printable(l) ==
    /\ ~Blank(l)
    /\ classifyEntry(TrimSpace(l), Unmarshal(TrimSpace(l))).Content # ""

\* C3: a failed annotation call leaves a warning in the log and nothing
\* else: the run is never ended by it, and however many calls have failed,
\* the counter, the transcript and the calls made are those the lines read
\* call for.
C3_AnnotationFailureOnlyWarns ==
    /\ pc # "fatal"
    /\ Len(stderr) <= Len(annots)
    /\ \A k \in 1..Len(stderr) : HasPrefix(stderr[k], "Warning: ")
    /\ pc \in {"scan", "done"} =>
          /\ staticLineNum = Len(NonBlankLines(consumed))
          /\ Len(annots) = Len(SelectSeq(consumed, WantsAnnotation))
          /\ Len(SelectSeq(stdout, LAMBDA r : r.kind = "first"))
                = Len(SelectSeq(consumed, Printable))

\* both calls failed, and the second line was printed and annotated after
\* the first call had failed
C3_Witness ==
    /\ pc = "scan"
    /\ Len(annots) = 2
    /\ Len(stderr) = 2
    /\ annots[2].context = "chat-message-2"
    /\ \E k \in 1..Len(stdout) : stdout[k].LineNumber = 2

NotValidJSON(l) == ~Blank(l) /\ ~prettyLine(TrimSpace(l)).ok

LastPrinted == stdout[Len(stdout)]

\* C5 as stated: a non-blank line that is not valid JSON gives an entry of
\* speaker SYSTEM, not JSON, whose content is the text of the line.
C5_ContentIsTheLine ==
    (pc \in {"print", "annotate"} /\ NotValidJSON(line)) =>
        /\ entry[1].Speaker = "SYSTEM"
        /\ ~entry[1].IsJSON
        /\ entry[1].Content = line

\* C5, amended: a non-blank line that is not valid JSON gives an entry of
\* speaker SYSTEM, not JSON, whose content is the text of the line without
\* its leading and trailing whitespace; the entry is printed in the
\* transcript, so no such line is dropped.
C5_ContentIsTheTrimmedLine ==
    /\ (pc \in {"print", "annotate"} /\ NotValidJSON(line)) =>
          /\ Len(entry) = 1
          /\ entry[1].Speaker = "SYSTEM"
          /\ ~entry[1].IsJSON
          /\ entry[1].Content = TrimSpace(line)
    /\ (pc = "annotate" /\ NotValidJSON(line)) =>
          /\ Len(stdout) > 0
          /\ LastPrinted.kind = "first"
          /\ LastPrinted.LineNumber = entry[1].LineNumber
          /\ LastPrinted.Speaker = "SYSTEM"
          /\ LastPrinted.text = TrimSpace(line)
    /\ \A i \in 1..Len(consumed) :
          (NotValidJSON(consumed[i])
             /\ (i < Len(consumed) \/ pc \in {"annotate", "scan", "done"}))
          => i \in EffectsOf("print")

C5_Witness ==
    /\ pc = "annotate"
    /\ line = LinePadded
    /\ entry[1].Content = "not json at all"
    /\ LastPrinted.text = "not json at all"

ErrorResults(msg) ==
    {i \in 1..Len(msg.Content) :
        msg.Content[i].Type = "tool_result" /\ msg.Content[i].IsError}

\* C7: the error flag of a line is true exactly when the line is a user
\* message with a tool_result item marked is_error; it is false for every
\* other user message, for system, assistant and unknown kinds and for a
\* line that is not JSON.
C7_ErrorFlag ==
    cOut.done =>
        (cOut.annotation.hasError
            <=> /\ cIn.dec.ok
                /\ cIn.dec.msg.Type = "user"
                /\ ErrorResults(cIn.dec.msg) # {})

C7_Witness ==
    /\ cOut.done
    /\ cOut.annotation.hasError
    /\ Len(cIn.dec.msg.Content) = 2
    /\ cIn.dec.msg.Content[1].Type = "text"
    /\ cIn.dec.msg.Content[2].IsError

\* C8: the style of an annotation call follows from speaker and error flag:
\* ASSISTANT info, USER error or success as the flag says, SYSTEM warning,
\* anything else info; so it is error only for a user message with a failed
\* tool result.
C8_StyleFromSpeakerAndError ==
    (cOut.done /\ cOut.call.run) =>
        LET speaker == cOut.annotation.speaker
            hasError == cOut.annotation.hasError
            style == cOut.call.style
        IN  /\ style = (CASE speaker = "ASSISTANT" -> "info"
                          [] speaker = "USER" /\ hasError -> "error"
                          [] speaker = "USER" /\ ~hasError -> "success"
                          [] speaker = "SYSTEM" -> "warning"
                          [] OTHER -> "info")
            /\ (style = "error") <=>
                  /\ cIn.dec.ok
                  /\ cIn.dec.msg.Type = "user"
                  /\ ErrorResults(cIn.dec.msg) # {}
            /\ ~cIn.dec.ok => style = "warning"
            /\ (cIn.dec.ok /\ cIn.dec.msg.Type = "system") => style = "warning"
            /\ (cIn.dec.ok /\ cIn.dec.msg.Type = "assistant") => style = "info"

C8_Witness ==
    /\ cOut.done
    /\ cOut.call.run
    /\ cOut.call.style = "error"
    /\ cOut.annotation.speaker = "USER"

\* a line that decodes to a message of a kind other than system, assistant
\* and user
UnknownKind(l) ==
    /\ Unmarshal(TrimSpace(l)).ok
    /\ Unmarshal(TrimSpace(l)).msg.Type \notin {"system", "assistant", "user"}

\* C9: a message of an unknown kind is never annotated, yet it takes a line
\* number and is printed in the transcript under its kind in upper case.
C9_UnknownKindPrintedNotAnnotated ==
    /\ \A k \in 1..Len(io) :
          io[k].op = "annotate" => ~UnknownKind(consumed[io[k].idx])
    /\ (pc = "annotate" /\ UnknownKind(line)) =>
          /\ line = LineResult
          /\ entry[1].Speaker = "RESULT"
          /\ entry[1].LineNumber = Len(NonBlankLines(consumed))
          /\ Len(stdout) >= 2
          /\ stdout[Len(stdout) - 1].kind = "first"
          /\ stdout[Len(stdout) - 1].Speaker = "RESULT"
          /\ stdout[Len(stdout) - 1].LineNumber = entry[1].LineNumber
    /\ (pc \in {"scan", "done"} /\ Len(consumed) > 0 /\ UnknownKind(line)) =>
          /\ io[Len(io)] = [op |-> "print", idx |-> Len(consumed)]
          /\ staticLineNum = Len(NonBlankLines(consumed))

C9_Witness ==
    /\ pc = "scan"
    /\ consumed = <<LineBroken, LineResult>>
    /\ Len(annots) = 1
    /\ staticLineNum = 2
    /\ stdout[2].Speaker = "RESULT"
    /\ stdout[2].LineNumber = 2

\* C10: a line whose content is empty is dropped: nothing is printed for it
\* and no annotation is sent for it.
C10_EmptyContentDropped ==
    \A k \in 1..Len(io) :
        io[k].op \in {"print", "annotate"} => Printable(consumed[io[k].idx])

(***************************************************************************)
(* The run with the failures of its environment: a capture file that       *)
(* cannot be created or written, a read of the input that fails, a write   *)
(* to standard output that fails.  The clock stands still here and the     *)
(* input is drawn from four of the sample lines.                           *)
(***************************************************************************)
MaxFaults == 1

FaultLines == {LineSpaces, LinePadded, LineNoContent, LineToolError}

\* the failed writes so far whose error the program discarded
Faults ==
    Cardinality({k \in 1..Len(io) : io[k].op \in {"capturefail", "printfail"}})

\* log.Fatalf that logs and returns
logFatalfReturns(log, msg) == [stderr |-> Append(log, msg), fatal |-> FALSE]

\* log.Fatalf that neither logs nor ends the process
logFatalfIgnored(log, msg) == [stderr |-> log, fatal |-> FALSE]

\* log.Fatalf(msg): the message is logged and os.Exit(1) ends the process
logFatalf(log, msg) == [stderr |-> Append(log, msg), fatal |-> TRUE]

\* a write to standard output failed with err.  On a broken pipe the Go
\* runtime ends the process with SIGPIPE; any other error is the value
\* fmt.Printf returns, which printSingleEntry discards
printfFailed(err, next) == IF err = "EPIPE" THEN "killed" ELSE next

\* the status the process ends with
exitStatus(at) ==
    CASE at = "done" -> 0
      [] at = "fatal" -> 1
      [] at = "killed" -> 141
      [] OTHER -> -1

\* main's dispatch on outputFile, with nothing read yet
InitFaults ==
    /\ outputFile \in {"", "out.jsonl"}
    /\ pc = IF outputFile # "" THEN "create" ELSE "scan"
    /\ consumed = <<>>
    /\ line = ""
    /\ entry = <<>>
    /\ staticLineNum = 0
    /\ clock = 0
    /\ stdout = <<>>
    /\ stderr = <<>>
    /\ annots = <<>>
    /\ capFile = <<>>
    /\ entries = <<>>
    /\ io = <<>>
    /\ cIn = NoInput
    /\ cOut = NoOutput

\* outputFile, err := os.Create(outputFilename)
CreateFile ==
    /\ pc = "create"
    /\ \E ok \in BOOLEAN :
          IF ok
          THEN /\ pc' = "scan"
               /\ UNCHANGED <<stderr, io>>
          ELSE LET f == logFatalf(stderr, "Error creating output file '"
                                          \o outputFile \o "'")
               IN  /\ stderr' = f.stderr
                   /\ pc' = IF f.fatal THEN "fatal" ELSE "scan"
                   /\ io' = Append(io, Effect("createfail"))
    /\ capFile' = <<>>
    /\ UNCHANGED <<outputFile, consumed, line, entry, staticLineNum, clock,
                   stdout, annots, entries, cIn, cOut>>

\* scanner.Scan() returns true; line := scanner.Text()
ScanSample ==
    /\ pc = "scan"
    /\ Len(consumed) < MaxLines
    /\ \E l \in FaultLines :
          /\ line' = l
          /\ consumed' = Append(consumed, l)
          /\ io' = Append(io, [op |-> "read", idx |-> Len(consumed) + 1])
    /\ pc' = loopStep("scan", outputFile # "", FALSE)
    /\ UNCHANGED <<outputFile, entry, staticLineNum, clock, stdout, stderr,
                   annots, capFile, entries, cIn, cOut>>

\* scanner.Scan() returns false because the read failed; scanner.Err() is
\* not nil
ScanError ==
    /\ pc = "scan"
    /\ LET f == logFatalf(stderr, "Error reading input")
       IN  /\ stderr' = f.stderr
           /\ pc' = IF f.fatal THEN "fatal" ELSE "done"
    /\ io' = Append(io, Effect("readerr"))
    /\ UNCHANGED <<outputFile, consumed, line, entry, staticLineNum, clock,
                   stdout, annots, capFile, entries, cIn, cOut>>

\* the loop gives up the line whose copy could not be written
fprintlnFailedSkipsLine(next) == "scan"

\* fmt.Fprintln returned an error: the loop does not look at it and goes on
\* with its next statement
fprintlnFailed(next) == next

\* fmt.Fprintln(outputFile, line) fails
CaptureFail ==
    /\ pc = "capture"
    /\ Faults < MaxFaults
    /\ io' = Append(io, Effect("capturefail"))
    /\ pc' = fprintlnFailed(loopStep("capture", outputFile # "", FALSE))
    /\ UNCHANGED <<outputFile, consumed, line, entry, staticLineNum, clock,
                   stdout, stderr, annots, capFile, entries, cIn, cOut>>

\* printSingleEntry(*entry) where the f-th write fails with err: the lines
\* before it are out, that line and the entry's later ones are lost
PrintFail ==
    /\ pc = "print"
    /\ Faults < MaxFaults
    /\ LET out == printSingleEntry(entry[1])
       IN  \E f \in 1..Len(out), err \in {"EPIPE", "ENOSPC"} :
              /\ stdout' = stdout \o SubSeq(out, 1, f - 1)
              /\ io' = Append(io, Effect("printfail"))
              /\ pc' = printfFailed(err, loopStep("print", outputFile # "", TRUE))
    /\ UNCHANGED <<outputFile, consumed, line, entry, staticLineNum, clock,
                   stderr, annots, capFile, entries, cIn, cOut>>

NextFaults ==
    \/ CreateFile
    \/ ScanSample
    \/ ScanEOF
    \/ ScanError
    \/ Capture
    \/ CaptureFail
    \/ Parse
    \/ PrintEntry
    \/ PrintFail
    \/ Annotate

SpecFaults == InitFaults /\ [][NextFaults]_vars

(***************************************************************************)
(* Properties of the run with failures                                     *)
(***************************************************************************)
\* the places in io of the effects of kind op
Occurrences(op) == {k \in 1..Len(io) : io[k].op = op}

\* C11: once a write to standard output has failed the run is over, with a
\* failure: the failed write is the last thing the run did, so no later
\* line is read, rendered, annotated or captured.
C11_WriteFailureIsFatal ==
    \A k \in Occurrences("printfail") :
       /\ pc \in {"fatal", "killed"}
       /\ k = Len(io)

\* C12: when the read of the input fails the run ends there with exit
\* status 1 and the read error in the log: the failed read is the last thing
\* the run did, and each line read before it has its entry, its transcript
\* output attempted and its annotation call made.
C12_ReadFailureIsFatal ==
    \A k \in Occurrences("readerr") :
       /\ pc = "fatal"
       /\ exitStatus(pc) = 1
       /\ k = Len(io)
       /\ stderr[Len(stderr)] = "Error reading input"
       /\ Len(entries) = Len(NonBlankLines(consumed))
       /\ \A i \in 1..Len(consumed) :
             /\ Printable(consumed[i]) =>
                   i \in EffectsOf("print") \cup EffectsOf("printfail")
             /\ WantsAnnotation(consumed[i]) => i \in EffectsOf("annotate")
             /\ outputFile # "" =>
                   i \in EffectsOf("capture") \cup EffectsOf("capturefail")

C12_Witness ==
    /\ Occurrences("readerr") # {}
    /\ outputFile # ""
    /\ consumed = <<LineToolError, LinePadded>>
    /\ Len(annots) = 2
    /\ EffectsOf("print") = {1, 2}

\* C13: with -o, nothing is read before the capture file is created, and
\* when it cannot be created the run ends there with exit status 1: no line
\* has been consumed, rendered or annotated.
C13_CreateFailureIsFatal ==
    /\ pc = "create" => consumed = <<>> /\ io = <<>>
    /\ \A k \in Occurrences("createfail") :
          /\ pc = "fatal"
          /\ exitStatus(pc) = 1
          /\ io = <<[op |-> "createfail", idx |-> 0]>>
          /\ stderr = <<"Error creating output file 'out.jsonl'">>
          /\ consumed = <<>>
          /\ entries = <<>>
          /\ stdout = <<>>
          /\ annots = <<>>
          /\ capFile = <<>>

C13_Witness ==
    /\ outputFile # ""
    /\ Occurrences("createfail") # {}
    /\ pc = "fatal"

(***************************************************************************)
(* main: the command line                                                  *)
(***************************************************************************)
MaxArgs == 3

ColorCyan == "[36m"

\* printUsage()
printUsage ==
    <<"Usage: chat-parser <input-file>",
      "       cat <input-file> | chat-parser -",
      "       cat <input-file> | chat-parser - -o <output-file>",
      "",
      "Options:",
      "  -o <file>    Save output to file (only when streaming from stdin)">>

\* the loop over args from args[i] on (i counts from 1): the error it stops
\* at, or the outputFile and inputSource it ends with
RECURSIVE parseArgs(_, _, _, _)
parseArgs(args, i, outFile, inputSource) ==
    IF i > Len(args)
    THEN [err |-> "", outputFile |-> outFile, inputSource |-> inputSource]
    ELSE CASE args[i] = "-o" ->
                IF i + 1 > Len(args)
                THEN [err |-> "Error: -o requires a filename",
                      outputFile |-> outFile, inputSource |-> inputSource]
                ELSE parseArgs(args, i + 2, args[i + 1], inputSource)
           [] args[i] = "-" -> parseArgs(args, i + 1, outFile, "-")
           [] OTHER ->
                IF inputSource = ""
                THEN parseArgs(args, i + 1, outFile, args[i])
                ELSE [err |-> "Error: unexpected argument '" \o args[i] \o "'",
                      outputFile |-> outFile, inputSource |-> inputSource]

\* how main ends or what it starts: what it has printed, what it has logged,
\* whether it called os.Open on the input, its exit status (-1 while it
\* runs) and the loop it has entered
mainOutcome(out, log, opened, status, loop) ==
    [stdout |-> out, stderr |-> log, opened |-> opened, exit |-> status,
     loop |-> loop]

\* main() with os.Args[1:] = args, where os.Open succeeds iff openOK
main(args, openOK) ==
    LET p == parseArgs(args, 1, "", "")
    IN  IF Len(args) = 0 THEN mainOutcome(printUsage, <<>>, FALSE, 1, "")
        ELSE IF p.err # ""
        THEN mainOutcome(<<p.err>> \o printUsage, <<>>, FALSE, 1, "")
        ELSE IF p.inputSource = ""
        THEN mainOutcome(printUsage, <<>>, FALSE, 1, "")
        ELSE IF p.inputSource # "-" /\ ~openOK
        THEN mainOutcome(<<>>, logFatalf(<<>>, "Error opening file").stderr,
                         TRUE, 1, "")
        ELSE IF p.outputFile # "" /\ p.inputSource # "-"
        THEN mainOutcome(
                 <<"Error: -o option can only be used when streaming from stdin">>,
                 <<>>, TRUE, 1, "")
        ELSE mainOutcome(
                 <<ColorCyan \o ColorBold \o "=== Claude Code Chat Transcript ==="
                   \o ColorReset, "">>,
                 <<>>, p.inputSource # "-", -1,
                 IF p.outputFile # "" THEN "parseAndStreamOutputWithFile"
                 ELSE "parseAndStreamOutput")

ArgWords == {"-o", "-", "", "in.jsonl", "out.jsonl"}

CommandLines ==
    {[args |-> a, openOK |-> b] : a \in SeqsUpTo(ArgWords, MaxArgs), b \in BOOLEAN}

InitMain ==
    /\ InitStream
    /\ outputFile = ""
    /\ cIn \in CommandLines
    /\ cOut = NoOutput

RunMain ==
    /\ ~cOut.done
    /\ cOut' = [done |-> TRUE, main |-> main(cIn.args, cIn.openOK)]
    /\ UNCHANGED <<cIn, pc, outputFile, consumed, line, entry, staticLineNum,
                   clock, stdout, stderr, annots, capFile, entries, io>>

NextMain == RunMain

SpecMain == InitMain /\ [][NextMain]_vars

\* a subsequence of out is the usage text
UsagePrinted(out) ==
    \E k \in 0..(Len(out) - Len(printUsage)) :
       SubSeq(out, k + 1, k + Len(printUsage)) = printUsage

\* the command lines the guidance calls invalid: none of the arguments names
\* an input, or -o names a file while the input is not standard input
NoPositional(args) ==
    parseArgs(args, 1, "", "").err = "" /\ parseArgs(args, 1, "", "").inputSource = ""
CaptureFromFile(args) ==
    LET p == parseArgs(args, 1, "", "")
    IN  p.err = "" /\ p.outputFile # "" /\ p.inputSource \notin {"", "-"}

\* C14: an invalid command line (no positional argument, or -o with a file
\* as input) makes main print the usage and exit with a non-zero status
\* without having opened the input or printed anything of the transcript.
C14_InvalidCommandLinePrintsUsage ==
    (cOut.done /\ (NoPositional(cIn.args) \/ CaptureFromFile(cIn.args))) =>
        /\ UsagePrinted(cOut.main.stdout)
        /\ cOut.main.exit > 0
        /\ ~cOut.main.opened
        /\ cOut.main.loop = ""

(***************************************************************************)
(* Progressive disclosure on its own: one tool_use or tool_result item     *)
(* whose candidate string has lengths and line counts around the           *)
(* thresholds, given to extractCleanJSONContentWithErrorCheck's branches.  *)
(***************************************************************************)
MaxCandidateLines == 3

RECURSIVE Rep(_, _)
Rep(c, n) ==
    IF n = 0 THEN ""
    ELSE LET half == Rep(c, n \div 2)
         IN  half \o half \o (IF n % 2 = 1 THEN c ELSE "")

\* lengths of a line that put a candidate of one or two lines below, at
\* and above 300 and 400 characters
LineLengths == {0, 1, 149, 150, 199, 200, 300, 301, 400, 401}

CandidateTexts ==
    {Join(ls, "\n") :
        ls \in (SeqsUpTo({Rep("a", n) : n \in LineLengths}, MaxCandidateLines)
                \ {<<>>})}

\* the serialization of "aa...a" is two characters longer than the string
DisclosureItems ==
    {Item("tool_result", s, "", JNil, JNil, e) :
        s \in CandidateTexts \ {""}, e \in {FALSE}}
    \cup {Item("tool_result", Rep("a", 401), "", JNil, JNil, TRUE)}
    \cup {Item("tool_use", "", "Bash", JString(Rep("a", n)), JNil, FALSE) :
            n \in {0, 1, 297, 298, 299, 300}}
    \cup {Item("tool_use", "", "Bash", JObject(<<<<"command", Rep("a", n)>>>>),
               JNil, FALSE) : n \in {1, 300}}

\* the string the disclosure is computed on, and its character threshold
candidateOf(it) ==
    IF it.Type = "tool_use" THEN MarshalIndent(it.Input) ELSE resultContentOf(it)
maxPreviewLengthOf(it) ==
    IF it.Type = "tool_use" THEN maxPreviewLengthInput ELSE maxPreviewLengthResult

InitDisclose ==
    /\ InitStream
    /\ outputFile = ""
    /\ cIn \in {[item |-> it] : it \in DisclosureItems}
    /\ cOut = NoOutput

Disclose ==
    /\ ~cOut.done
    /\ cOut' = [done |-> TRUE,
                candidate |-> candidateOf(cIn.item),
                d |-> disclosure(candidateOf(cIn.item), maxPreviewLengthOf(cIn.item)),
                emitted |-> IF cIn.item.Type = "tool_use"
                            THEN toolUseClean(cIn.item)
                            ELSE toolResultClean(cIn.item)]
    /\ UNCHANGED <<cIn, pc, outputFile, consumed, line, entry, staticLineNum,
                   clock, stdout, stderr, annots, capFile, entries, io>>

NextDisclose == Disclose

SpecDisclose == InitDisclose /\ [][NextDisclose]_vars

HasSuffix(s, suffix) ==
    Len(s) >= Len(suffix) /\ SubSeq(s, Len(s) - Len(suffix) + 1, Len(s)) = suffix

Contains(s, sub) ==
    \E i \in 1..(Len(s) - Len(sub) + 1) : SubSeq(s, i, i + Len(sub) - 1) = sub

\* the preview as it stands, and without the ellipsis marker when it ends
\* in one
PreviewTexts(preview) ==
    {preview} \cup (IF HasSuffix(preview, "...")
                    THEN {SubSeq(preview, 1, Len(preview) - 3)} ELSE {})

InlineLead(it) ==
    IF it.Type = "tool_use" THEN ":wrench: Using tool: " \o it.Name \o " with "
    ELSE (IF it.IsError THEN ":x: Tool error:"
          ELSE ":white_check_mark: Tool result:") \o "\n"

\* C17: the candidate is emitted whole, inline and without a collapsible
\* block exactly when it has at most 2 lines and at most 300 (tool input) or
\* 400 (tool result) characters; in every other case the collapsible block
\* is there exactly when the remainder is not empty.
C17_InlineIffShort ==
    cOut.done =>
       LET S == cOut.candidate
           short == Len(Split(S)) <= 2 /\ Len(S) <= maxPreviewLengthOf(cIn.item)
           whole == cOut.emitted = InlineLead(cIn.item) \o S
       IN  /\ whole <=> short
           /\ ~short => (Contains(cOut.emitted, "<details>")
                            <=> cOut.d.remaining # "")
           /\ Contains(cOut.emitted, "<details>") =>
                 HasSuffix(cOut.emitted, cOut.d.remaining \o "\n'''\n\n</details>")

\* a result of two lines and exactly 400 characters is emitted whole
C17_Witness ==
    /\ cOut.done
    /\ cIn.item.Type = "tool_result"
    /\ cOut.candidate = Rep("a", 199) \o "\n" \o Rep("a", 200)
    /\ cOut.emitted = ":white_check_mark: Tool result:\n" \o cOut.candidate

\* what a run prints and sends for the lines ls when nothing but the lines
\* decides it: the entries parseLine returns from counter n on with the
\* clock at 0, what printSingleEntry prints for them, and the annotation
\* calls made for them
RECURSIVE EntriesFor(_, _)
EntriesFor(ls, n) ==
    IF Len(ls) = 0 THEN <<>>
    ELSE LET r == parseLine(Head(ls), n, 0)
         IN  r.entry \o EntriesFor(Tail(ls), r.staticLineNum)

RECURSIVE TranscriptFor(_)
TranscriptFor(es) ==
    IF Len(es) = 0 THEN <<>>
    ELSE printSingleEntry(Head(es)) \o TranscriptFor(Tail(es))

RECURSIVE CallsFor(_, _)
CallsFor(ls, n) ==
    IF Len(ls) = 0 THEN <<>>
    ELSE LET r == parseLine(Head(ls), n, 0)
             a == IF Len(r.entry) = 0 THEN NoAnnotation
                  ELSE createBuildkiteAnnotation(Head(ls), r.entry[1].LineNumber,
                                                 r.entry[1].Timestamp)
         IN  (IF a.run
              THEN <<[style |-> a.style, context |-> a.context, body |-> a.body]>>
              ELSE <<>>)
             \o CallsFor(Tail(ls), r.staticLineNum)

\* C15: with or without -o, and whether or not writes to the capture file
\* have failed, a run that has read the lines in consumed and whose writes
\* to standard output went through has made of them the same entries, the
\* same transcript and the same annotation calls: those the lines alone
\* determine.
C15_CaptureChangesNothingElse ==
    (pc \in {"scan", "done", "fatal"} /\ Occurrences("printfail") = {}) =>
        /\ entries = EntriesFor(consumed, 0)
        /\ stdout = TranscriptFor(entries)
        /\ annots = CallsFor(consumed, 0)

\* of two lines copied the first write failed; both are in the transcript
\* and the second is annotated
C15_Witness ==
    /\ outputFile # ""
    /\ pc = "scan"
    /\ consumed = <<LinePadded, LineToolError>>
    /\ EffectsOf("capturefail") = {1}
    /\ capFile = <<LineToolError>>
    /\ Len(entries) = 2
    /\ Len(annots) = 2
    /\ \E k \in 1..Len(stdout) : stdout[k].LineNumber = 2

(***************************************************************************)
(* Further properties of the run                                           *)
(***************************************************************************)
\* the annotation calls as effects, in order: the k-th goes with annots[k]
AnnotateEffects == SelectSeq(io, LAMBDA e : e.op = "annotate")

\* how often the effect of kind op has happened for the i-th line read
Times(op, i) == Cardinality({k \in Occurrences(op) : io[k].idx = i})

\* C18: each annotation call carries the context chat-message-N, N being the
\* number of non-blank lines read up to and including its line; no two
\* calls of a run have the same context, and no line is given to the sink
\* more than once, whether or not the call failed.
C18_OneContextPerLine ==
    /\ Len(AnnotateEffects) = Len(annots)
    /\ \A k \in 1..Len(annots) :
          annots[k].context =
             "chat-message-"
             \o ToString(Len(NonBlankLines(SubSeq(consumed, 1, AnnotateEffects[k].idx))))
    /\ \A j, k \in 1..Len(annots) : j # k => annots[j].context # annots[k].context
    /\ \A i \in 1..Len(consumed) : Times("annotate", i) <= 1

\* a blank line, then a line whose call failed: one call, under the context
\* of message 1, and the run is back at the loop head
C18_Witness ==
    /\ pc = "scan"
    /\ consumed = <<LineSpaces, LinePadded>>
    /\ Len(stderr) = 1
    /\ Len(annots) = 1
    /\ annots[1].context = "chat-message-1"

\* the statements of the loop, and the return from it
LoopPositions == {"scan", "capture", "parse", "print", "annotate", "done"}

\* the thread leaves the statement it is at
LoopAdvances == pc \in LoopPositions \ {"done"} /\ pc' \in LoopPositions \ {pc}

\* scanner.Scan() returns false because the next line does not fit the
\* scanner's buffer: main makes the scanner with bufio.NewScanner and never
\* calls Buffer, so a line of bufio.MaxScanTokenSize (64 KiB) or more ends
\* the scan with scanner.Err() = bufio.ErrTooLong
ScanTooLong ==
    /\ pc = "scan"
    /\ LET f == logFatalf(stderr, "Error reading input: bufio.Scanner: token too long")
       IN  /\ stderr' = f.stderr
           /\ pc' = IF f.fatal THEN "fatal" ELSE "done"
    /\ io' = Append(io, Effect("toolong"))
    /\ UNCHANGED <<outputFile, consumed, line, entry, staticLineNum, clock,
                   stdout, annots, capFile, entries, cIn, cOut>>

NextLong ==
    \/ Next
    \/ ScanTooLong

\* the run on an input that may hold a line too long for the scanner, in
\* which no statement of the loop is waited at for ever: the process is one
\* sequential thread, each read returns and each annotation command returns
SpecLong == Init /\ [][NextLong]_vars /\ WF_pc(LoopAdvances)

\* every line read has been dealt with exactly once
EveryLineOnce ==
    /\ Len(entries) = Len(NonBlankLines(consumed))
    /\ \A i \in 1..Len(consumed) :
          /\ Times("read", i) = 1
          /\ Times("capture", i) = IF outputFile # "" THEN 1 ELSE 0
          /\ Times("print", i) = IF Printable(consumed[i]) THEN 1 ELSE 0
          /\ Times("annotate", i) = IF WantsAnnotation(consumed[i]) THEN 1 ELSE 0

\* C19: on an input that ends, with reads that succeed and annotation
\* commands that return, the run reaches the end of the input and returns
\* from the loop normally, and then every line has been processed exactly
\* once.
C19_Terminates ==
    /\ <>(pc = "done")
    /\ [](pc = "done" => EveryLineOnce)

\* C20: the speaker, the content and the JSON mark of an entry, and the
\* error status of its annotation, are those a fresh run gives the same line
\* as its first: nothing that came before, lines read, time passed or calls
\* failed, changes them; the line number and the timestamp are all that
\* differs.
C20_ClassificationHasNoHistory ==
    /\ \A i \in 1..Len(entries) :
          LET fresh == parseLine(NonBlankLines(Parsed)[i], 0, 0).entry[1]
          IN  /\ entries[i].Speaker = fresh.Speaker
              /\ entries[i].Content = fresh.Content
              /\ entries[i].IsJSON = fresh.IsJSON
              /\ entries[i].RawLine = fresh.RawLine
    /\ \A k \in 1..Len(annots) :
          annots[k].style =
             createBuildkiteAnnotation(consumed[AnnotateEffects[k].idx], 1,
                                       formatRelativeTime(0)).style
    /\ \A i, j \in 1..Len(entries) :
          entries[i].RawLine = entries[j].RawLine =>
             /\ entries[i].Speaker = entries[j].Speaker
             /\ entries[i].Content = entries[j].Content
             /\ entries[i].IsJSON = entries[j].IsJSON

\* the same failed tool result read twice, a second apart
C20_Witness ==
    /\ consumed = <<LineToolError, LineToolError>>
    /\ Len(entries) = 2
    /\ entries[1].Content = entries[2].Content
    /\ entries[1].LineNumber # entries[2].LineNumber
    /\ entries[1].Timestamp # entries[2].Timestamp
    /\ Len(annots) = 2
    /\ annots[1].style = "error"
    /\ annots[2].style = "error"

(***************************************************************************)
(* The placeholder of unknown kinds                                        *)
(***************************************************************************)
\* C21: the placeholder text given to an event of unknown kind is never
\* printed in the transcript.
C21_PlaceholderNeverPrinted ==
    \A k \in 1..Len(stdout) : stdout[k].text # "Unknown message type"


\* C24: every system, assistant or user event with non-empty content results
\* in an annotation call, the event whose content equals the placeholder
\* "Unknown message type" included.
C24_OnlyUnknownKindsSuppressed ==
    (/\ cOut.done
     /\ cIn.dec.ok
     /\ cIn.dec.msg.Type \in {"system", "assistant", "user"}
     /\ cOut.annotation.content # "")
        => cOut.call.run

\* the message's tool_result items are all marked is_error, and there is one
OnlyFailedResults(msg) ==
    /\ ErrorResults(msg) # {}
    /\ \A i \in 1..Len(msg.Content) :
          msg.Content[i].Type = "tool_result" => msg.Content[i].IsError

\* C25: a tool_result item marked is_error is never shown with the success
\* indicator, in the transcript and in the annotation body alike, also when
\* it carries neither text nor content.
C25_FailedResultNeverShownAsSuccess ==
    (/\ cOut.done
     /\ cIn.dec.ok
     /\ cIn.dec.msg.Type = "user"
     /\ OnlyFailedResults(cIn.dec.msg))
        => /\ ~Contains(cOut.entry.Content, ":white_check_mark:")
           /\ ~Contains(cOut.call.body, ":white_check_mark:")


\* C26: the annotation path and the transcript path classify a non-blank
\* line alike: the speaker of the annotation is the speaker of the chat
\* entry, and the annotation content is empty exactly when the entry content
\* is.
C26_PathsClassifyAlike ==
    cOut.done =>
        /\ cOut.annotation.speaker = cOut.entry.Speaker
        /\ (cOut.annotation.content = "") <=> (cOut.entry.Content = "")

C26_Witness ==
    /\ cOut.done
    /\ cIn.dec.ok
    /\ cIn.dec.msg.Type = "user"
    /\ Len(cIn.dec.msg.Content) = 2
    /\ cIn.dec.msg.Content[1].Type = "text"
    /\ cIn.dec.msg.Content[2].Type = "tool_result"
    /\ cOut.annotation.speaker = "USER"
    /\ cOut.entry.Speaker = "USER"
    /\ cOut.entry.Content # ""
    /\ cOut.annotation.content # ""
    /\ cOut.entry.Content # cOut.annotation.content


\* the items of an assistant message that contribute a part, in their order
Contributing(items) ==
    SelectSeq(items, LAMBDA it : \/ it.Type = "text" /\ it.Text # ""
                                 \/ it.Type = "tool_use")

\* C27: the content of an assistant event is made of one part for each
\* non-empty text item and each tool_use item, in the order of the items;
\* a text item with empty text contributes none.
C27_AssistantPartsInOrder ==
    (cOut.done /\ cIn.dec.ok /\ cIn.dec.msg.Type = "assistant") =>
        LET kept == Contributing(cIn.dec.msg.Content)
            clean == [i \in 1..Len(kept) |->
                        IF kept[i].Type = "text" THEN kept[i].Text
                        ELSE toolUseClean(kept[i])]
            colored == [i \in 1..Len(kept) |->
                          IF kept[i].Type = "text" THEN kept[i].Text
                          ELSE toolUseColored(kept[i])]
        IN  /\ cOut.annotation.content = Join(clean, "\n\n")
            /\ cOut.entry.Content = Join(colored, "\n")

C27_Witness ==
    /\ cOut.done
    /\ cIn.dec.ok
    /\ cIn.dec.msg.Type = "assistant"
    /\ Len(cIn.dec.msg.Content) = 2
    /\ cIn.dec.msg.Content[1].Type = "tool_use"
    /\ cIn.dec.msg.Content[1].Name = "Read"
    /\ cIn.dec.msg.Content[2].Type = "text"
    /\ cIn.dec.msg.Content[2].Text = "hi"
    /\ cOut.annotation.content = ":wrench: Using tool: Read\n\nhi"
    /\ cOut.entry.Content
          = ColorGreen \o ":wrench: Using tool: Read" \o ColorReset \o "\nhi"

\* an assistant event with an empty text item before a non-empty one: the
\* empty one leaves no trace in the content
C27_WitnessEmptySkipped ==
    /\ cOut.done
    /\ cIn.dec.ok
    /\ cIn.dec.msg.Type = "assistant"
    /\ Len(cIn.dec.msg.Content) = 2
    /\ cIn.dec.msg.Content[1].Type = "text"
    /\ cIn.dec.msg.Content[1].Text = ""
    /\ cOut.annotation.content = "hi"
    /\ cOut.entry.Content = "hi"


\* C28 as stated: whenever disclosure is applied the preview has at most 2
\* lines and at most T_chars characters plus the ellipsis marker.
C28_PreviewBounded ==
    (cOut.done /\ cOut.d.needs) =>
        /\ Len(Split(cOut.d.preview)) <= 2
        /\ Len(cOut.d.preview) <= maxPreviewLengthOf(cIn.item) + Len("...")

\* C28, amended: whenever disclosure is applied the preview has at most 2
\* lines; for a candidate of at most 2 lines it is the first T_chars characters
\* plus the ellipsis marker, and for a candidate of more than 2 lines it is
\* the candidate's first 2 lines, of whatever length.
C28_PreviewIsTwoLinesOrTruncation ==
    (cOut.done /\ cOut.d.needs) =>
        LET lines == Split(cOut.candidate)
            T == maxPreviewLengthOf(cIn.item)
        IN  /\ Len(Split(cOut.d.preview)) <= 2
            /\ Len(lines) <= 2 =>
                  /\ cOut.d.preview = SubSeq(cOut.candidate, 1, T) \o "..."
                  /\ Len(cOut.d.preview) = T + Len("...")
            /\ Len(lines) > 2 =>
                  cOut.d.preview = lines[1] \o "\n" \o lines[2]

C28_Witness ==
    /\ cOut.done
    /\ cOut.d.needs
    /\ cIn.item.Type = "tool_result"
    /\ Len(Split(cOut.candidate)) = 3
    /\ Len(cOut.d.preview) = 401 + 1 + 401


(***************************************************************************)
(* formatRelativeTime on elapsed durations around the first hour.  A       *)
(* time.Duration is finer than a second: the model counts it in ticks.     *)
(***************************************************************************)
MaxSeconds == 3661
TicksPerSecond == 2

\* the elapsed durations: every tick up to MaxSeconds, and runs of many hours
Durations ==
    (0..(MaxSeconds * TicksPerSecond))
    \cup {s * TicksPerSecond : s \in {35999, 36000, 359999, 360000}}

\* int(elapsed.Seconds())
Seconds(elapsed) == elapsed \div TicksPerSecond

InitTime ==
    /\ InitStream
    /\ outputFile = ""
    /\ cIn \in {[elapsed |-> e] : e \in Durations}
    /\ cOut = NoOutput

FormatTime ==
    /\ ~cOut.done
    /\ cOut' = [done |-> TRUE,
                totalSeconds |-> Seconds(cIn.elapsed),
                text |-> formatRelativeTime(Seconds(cIn.elapsed))]
    /\ UNCHANGED <<cIn, pc, outputFile, consumed, line, entry, staticLineNum,
                   clock, stdout, stderr, annots, capFile, entries, io>>

NextTime == FormatTime

SpecTime == InitTime /\ [][NextTime]_vars

\* the number a string of decimal digits writes
DigitValue(c) ==
    CASE c = "0" -> 0 [] c = "1" -> 1 [] c = "2" -> 2 [] c = "3" -> 3
      [] c = "4" -> 4 [] c = "5" -> 5 [] c = "6" -> 6 [] c = "7" -> 7
      [] c = "8" -> 8 [] c = "9" -> 9

RECURSIVE Number(_)
Number(digits) ==
    IF Len(digits) = 0 THEN 0
    ELSE 10 * Number(SubSeq(digits, 1, Len(digits) - 1))
         + DigitValue(SubSeq(digits, Len(digits), Len(digits)))

\* the texts between the colons of a timestamp
RECURSIVE ColonFields(_)
ColonFields(t) ==
    IF \A i \in 1..Len(t) : SubSeq(t, i, i) # ":" THEN <<t>>
    ELSE LET i == CHOOSE k \in 1..Len(t) :
                    /\ SubSeq(t, k, k) = ":"
                    /\ \A j \in 1..(k - 1) : SubSeq(t, j, j) # ":"
         IN  <<SubSeq(t, 1, i - 1)>> \o ColonFields(SubSeq(t, i + 1, Len(t)))

\* the numbers a timestamp shows
TimeFields(t) == [i \in 1..Len(ColonFields(t)) |-> Number(ColonFields(t)[i])]

OneHour == 3600 * TicksPerSecond

\* what the timestamp of s whole seconds shows, each field written with at
\* least two digits
ShowsTimeOf(text, s) ==
    LET f == ColonFields(text)
        n == TimeFields(text)
    IN  /\ \A i \in 1..Len(f) : Len(f[i]) >= 2
        /\ s < 3600 => n = <<s \div 60, s % 60>>
        /\ s >= 3600 => n = <<s \div 3600, (s % 3600) \div 60, s % 60>>
        /\ n[Len(n)] \in 0..59
        /\ n[Len(n) - 1] \in 0..59

\* C29 as stated: the timestamp of s whole seconds is MM:SS below one hour
\* and HH:MM:SS from one hour on, minutes and seconds within 0..59, and the
\* HH:MM:SS form is used exactly when the elapsed time exceeds one hour.
C29_HoursOnlyAfterOneHour ==
    cOut.done =>
        /\ ShowsTimeOf(cOut.text, cOut.totalSeconds)
        /\ (Len(ColonFields(cOut.text)) = 3) <=> (cIn.elapsed > OneHour)

\* C29, amended: as above, with the HH:MM:SS form used exactly when the
\* elapsed time is at least one hour.
C29_HoursFromOneHourOn ==
    cOut.done =>
        /\ ShowsTimeOf(cOut.text, cOut.totalSeconds)
        /\ (Len(ColonFields(cOut.text)) = 3) <=> (cIn.elapsed >= OneHour)

C29_Witness ==
    /\ cOut.done
    /\ cIn.elapsed = OneHour
    /\ cOut.totalSeconds = 3600
    /\ cOut.text = "01:00:00"


\* the arguments of a command line that name an input source: those that are
\* neither -o nor the filename that follows it, nor empty
RECURSIVE SourcesNamed(_)
SourcesNamed(args) ==
    IF Len(args) = 0 THEN <<>>
    ELSE IF Head(args) = "-o" THEN SourcesNamed(SubSeq(args, 3, Len(args)))
    ELSE IF Head(args) = "" THEN SourcesNamed(Tail(args))
    ELSE <<Head(args)>> \o SourcesNamed(Tail(args))

\* two sources are named: two file paths, or a file path and "-"
NamesTwoSources(args) ==
    /\ Len(SourcesNamed(args)) >= 2
    /\ \E i \in 1..Len(SourcesNamed(args)) : SourcesNamed(args)[i] # "-"

\* C30: a command line that names two input sources (two file paths, or a
\* file path and "-" in either order) is rejected with an error and a
\* non-zero exit before anything is opened or processed.
C30_TwoSourcesRejected ==
    (cOut.done /\ NamesTwoSources(cIn.args)) =>
        /\ cOut.main.exit = 1
        /\ ~cOut.main.opened
        /\ cOut.main.loop = ""
        /\ \E k \in 1..Len(cOut.main.stdout) :
              HasPrefix(cOut.main.stdout[k], "Error:")


(***************************************************************************)
(* scripts/fix-build/trigger-buildkite.ts: main, from the webhook payload  *)
(* to the upload of the fix-build pipeline.  cIn holds what the run finds  *)
(* around it (the payload, GITHUB_TOKEN, the pull request on GitHub), cOut *)
(* the run: its position, what it has learnt, its exit status (-1 while it *)
(* runs) and the pipeline it has uploaded.                                 *)
(***************************************************************************)
\* the first index from `from` on at which sub occurs in s, or 0
IndexOf(s, sub, from) ==
    LET hits == {i \in from..(Len(s) - Len(sub) + 1) :
                    SubSeq(s, i, i + Len(sub) - 1) = sub}
    IN  IF hits = {} THEN 0
        ELSE CHOOSE i \in hits : \A j \in hits : i <= j

\* where /github\.com[:\/]([^\/]*)\// matches in repoUrl: the index of the
\* first character of the group and of the slash that ends it, or ok = FALSE
githubMatch(repoUrl) ==
    LET starts == {i \in 1..(Len(repoUrl) - 10) :
                      /\ SubSeq(repoUrl, i, i + 9) = "github.com"
                      /\ SubSeq(repoUrl, i + 10, i + 10) \in {":", "/"}
                      /\ IndexOf(repoUrl, "/", i + 11) # 0}
    IN  IF starts = {} THEN [ok |-> FALSE, first |-> 0, slash |-> 0]
        ELSE LET i == CHOOSE k \in starts : \A j \in starts : k <= j
             IN  [ok |-> TRUE, first |-> i + 11,
                  slash |-> IndexOf(repoUrl, "/", i + 11)]

\* repoUrl.match(/github\.com[:\/]([^\/]*)\//)
repoOwnerMatch(repoUrl) ==
    LET m == githubMatch(repoUrl)
    IN  IF m.ok THEN [ok |-> TRUE, group |-> SubSeq(repoUrl, m.first, m.slash - 1)]
        ELSE [ok |-> FALSE, group |-> ""]

\* repoUrl.match(/github\.com[:\/][^\/]*\/([^\/.]*)/)
repoNameMatch(repoUrl) ==
    LET m == githubMatch(repoUrl)
        ends == {j \in (m.slash + 1)..Len(repoUrl) :
                    SubSeq(repoUrl, j, j) \in {"/", "."}}
        last == IF ends = {} THEN Len(repoUrl)
                ELSE (CHOOSE j \in ends : \A k \in ends : j <= k) - 1
    IN  IF m.ok THEN [ok |-> TRUE, group |-> SubSeq(repoUrl, m.slash + 1, last)]
        ELSE [ok |-> FALSE, group |-> ""]

\* the payloads of the buildkite:webhook meta-data
NoPayload == [kind |-> "empty"]
BrokenPayload == [kind |-> "broken"]

BuildPayloads ==
    {[kind |-> "object", event |-> e,
      build |-> [present |-> b, state |-> s, number |-> 12,
                 web_url |-> "https://buildkite.com/acme/app/builds/12",
                 branch |-> "feature", commit |-> "c1"],
      pipeline |-> [slug |-> "app", repository |-> r]] :
        e \in {"", "build.finished", "build.scheduled"},
        b \in BOOLEAN,
        s \in {"failed", "passed"},
        r \in {"", "https://github.com/acme/app.git",
               "git@github.com:acme/app.git", "https://gitlab.com/acme/app.git"}}

\* the pull request GitHub has for the branch: none (number 0), or one with
\* its head commit and whether it carries the buildy-fix label
PullRequests ==
    {[number |-> 0, head |-> "", label |-> FALSE]}
    \cup {[number |-> 7, head |-> h, label |-> l] :
            h \in {"", "c1", "c2"}, l \in BOOLEAN}

FixBuildInputs ==
    {[payload |-> p, GITHUB_TOKEN |-> t, github |-> g] :
        p \in {NoPayload, BrokenPayload} \cup BuildPayloads,
        t \in BOOLEAN,
        g \in PullRequests}

NoPipeline == [prompt |-> "", BuildURL |-> "", PullRequestURL |-> ""]

\* generateFixBuildPipeline: the command of the step it generates
generateFixBuildPipeline(webhookBuildUrl, webhookPullRequestUrl) ==
    [prompt |-> "prompts/fix-build.md", BuildURL |-> webhookBuildUrl,
     PullRequestURL |-> webhookPullRequestUrl]

FixBuildStart ==
    [done |-> FALSE, at |-> "webhook", exit |-> -1, stopped |-> "",
     metadata |-> {}, repoOwner |-> "", repoName |-> "", prNumber |-> 0,
     uploaded |-> FALSE, pipeline |-> NoPipeline]

\* process.exit(status), or the rejection of main caught at 353-356
processExit(run, status, why) ==
    [run EXCEPT !.done = TRUE, !.at = "exited", !.exit = status,
                !.stopped = why]

InitFixBuild ==
    /\ InitStream
    /\ outputFile = ""
    /\ cIn \in FixBuildInputs
    /\ cOut = FixBuildStart

TriggerStep(next) ==
    /\ cOut' = next
    /\ UNCHANGED <<cIn, pc, outputFile, consumed, line, entry, staticLineNum,
                   clock, stdout, stderr, annots, capFile, entries, io>>

\* 197-210: the payload is read from the meta-data and parsed
GetWebhook ==
    /\ cOut.at = "webhook"
    /\ \E agentOK \in BOOLEAN :
          TriggerStep(
             IF ~agentOK THEN processExit(cOut, 1, "error")
             ELSE IF cIn.payload.kind = "empty" THEN processExit(cOut, 1, "error")
             ELSE IF cIn.payload.kind = "broken" THEN processExit(cOut, 1, "error")
             ELSE [cOut EXCEPT !.at = "event"])

\* the exit the event asks for: 1 when it is missing, 0 when it is not
\* build.finished, none (-1) when it is
eventGateAnyEvent(webhookEvent) ==
    IF webhookEvent = "" THEN 1 ELSE -1

eventGate(webhookEvent) ==
    IF webhookEvent = "" THEN 1
    ELSE IF webhookEvent # "build.finished" THEN 0
    ELSE -1

\* 212-227
CheckEvent ==
    /\ cOut.at = "event"
    /\ \E agentOK \in BOOLEAN :
          LET webhookEvent == cIn.payload.event
          IN  TriggerStep(
                 IF eventGate(webhookEvent) = 1 THEN processExit(cOut, 1, "error")
                 ELSE IF eventGate(webhookEvent) = 0
                 THEN processExit(cOut, 0, "event")
                 ELSE IF ~agentOK THEN processExit(cOut, 1, "error")
                 ELSE [cOut EXCEPT !.at = "state",
                                   !.metadata = {"webhook:event", "webhook:source"}])

\* 229-246
CheckState ==
    /\ cOut.at = "state"
    /\ TriggerStep(
          IF ~cIn.payload.build.present THEN processExit(cOut, 1, "error")
          ELSE IF cIn.payload.build.state # "failed"
          THEN processExit(cOut, 0, "state")
          ELSE [cOut EXCEPT !.at = "repository"])

\* 250-271
Repository ==
    /\ cOut.at = "repository"
    /\ LET repoUrl == cIn.payload.pipeline.repository
       IN  TriggerStep(
              IF repoUrl = "" THEN processExit(cOut, 1, "error")
              ELSE IF ~repoOwnerMatch(repoUrl).ok \/ ~repoNameMatch(repoUrl).ok
              THEN processExit(cOut, 1, "error")
              ELSE IF ~cIn.GITHUB_TOKEN THEN processExit(cOut, 1, "error")
              ELSE [cOut EXCEPT !.at = "findPr",
                                !.repoOwner = repoOwnerMatch(repoUrl).group,
                                !.repoName = repoNameMatch(repoUrl).group])

\* 273-286, with findOpenPrForBranch (37-62)
findOpenPrForBranch ==
    /\ cOut.at = "findPr"
    /\ \E apiOK \in BOOLEAN :
          TriggerStep(
             IF ~apiOK THEN processExit(cOut, 1, "error")
             ELSE IF cIn.github.number = 0 THEN processExit(cOut, 0, "pr")
             ELSE [cOut EXCEPT !.at = "headCommit",
                               !.prNumber = cIn.github.number])

\* the exit a build commit asks for, given the head commit of the PR
commitGateAnyCommit(webhookBuildCommit, prHeadCommit) ==
    IF prHeadCommit = "" THEN 0 ELSE -1

commitGate(webhookBuildCommit, prHeadCommit) ==
    IF prHeadCommit = "" THEN 0
    ELSE IF webhookBuildCommit # prHeadCommit THEN 0
    ELSE -1

\* 288-310, with getPrHeadCommit (95-118)
getPrHeadCommit ==
    /\ cOut.at = "headCommit"
    /\ \E apiOK \in BOOLEAN :
          TriggerStep(
             IF ~apiOK THEN processExit(cOut, 1, "error")
             ELSE IF commitGate(cIn.payload.build.commit, cIn.github.head) = 0
             THEN processExit(cOut, 0, "commit")
             ELSE [cOut EXCEPT !.at = "label"])

\* the exit the label asks for
labelGateStatusOne(hasBuildyLabel) ==
    IF ~hasBuildyLabel THEN 1 ELSE -1

labelGate(hasBuildyLabel) ==
    IF ~hasBuildyLabel THEN 0 ELSE -1

\* 312-326, with checkPrhasBuildyLabel (67-90)
checkPrhasBuildyLabel ==
    /\ cOut.at = "label"
    /\ \E apiOK \in BOOLEAN :
          TriggerStep(
             IF ~apiOK THEN processExit(cOut, 1, "error")
             ELSE IF labelGate(cIn.github.label) # -1
             THEN processExit(cOut, labelGate(cIn.github.label), "label")
             ELSE [cOut EXCEPT !.at = "upload"])

\* 328-350: the pipeline is generated and uploaded; main returns
UploadFixBuild ==
    /\ cOut.at = "upload"
    /\ \E uploadOK \in BOOLEAN :
          LET webhookPullRequestUrl ==
                  "https://github.com/" \o cOut.repoOwner \o "/" \o cOut.repoName
                  \o "/pull/" \o ToString(cOut.prNumber)
          IN  TriggerStep(
                 IF ~uploadOK THEN processExit(cOut, 1, "error")
                 ELSE [processExit(cOut, 0, "") EXCEPT
                          !.uploaded = TRUE,
                          !.pipeline = generateFixBuildPipeline(
                                          cIn.payload.build.web_url,
                                          webhookPullRequestUrl)])

NextFixBuild ==
    \/ GetWebhook
    \/ CheckEvent
    \/ CheckState
    \/ Repository
    \/ findOpenPrForBranch
    \/ getPrHeadCommit
    \/ checkPrhasBuildyLabel
    \/ UploadFixBuild

SpecFixBuild == InitFixBuild /\ [][NextFixBuild]_vars

\* the five conditions of the fix-build trigger, on what the run is given
FixBuildConditions ==
    [event |-> cIn.payload.kind = "object" /\ cIn.payload.event = "build.finished",
     state |-> cIn.payload.kind = "object" /\ cIn.payload.build.present
               /\ cIn.payload.build.state = "failed",
     pr |-> cIn.github.number # 0,
     commit |-> cIn.payload.kind = "object" /\ cIn.github.number # 0
                /\ cIn.github.head = cIn.payload.build.commit,
     label |-> cIn.github.number # 0 /\ cIn.github.label]

\* C22: the fix-build pipeline is uploaded only when the event is
\* build.finished, the build failed, an open PR exists for the branch, the
\* build commit is the PR head commit and the PR carries the label; a run
\* that stops at one of these five checks exits with status 0, and it stops
\* there only when the condition it checks does not hold.
C22_UploadOnlyWhenAllHold ==
    cOut.done =>
        /\ cOut.uploaded =>
              \A c \in DOMAIN FixBuildConditions : FixBuildConditions[c]
        /\ (\E c \in DOMAIN FixBuildConditions : ~FixBuildConditions[c])
              => /\ ~cOut.uploaded
                 /\ cOut.pipeline = NoPipeline
        /\ cOut.stopped \in DOMAIN FixBuildConditions =>
              /\ cOut.exit = 0
              /\ ~FixBuildConditions[cOut.stopped]
        /\ cOut.exit = 1 <=> cOut.stopped = "error"
        /\ cOut.exit \in {0, 1}

C22_Witness ==
    /\ cOut.done
    /\ cOut.stopped = "label"
    /\ cOut.exit = 0
    /\ ~cOut.uploaded
    /\ FixBuildConditions.event
    /\ FixBuildConditions.state
    /\ FixBuildConditions.pr
    /\ FixBuildConditions.commit
    /\ ~FixBuildConditions.label

\* the run in which all five conditions hold and the pipeline is uploaded
C22_WitnessUploaded ==
    /\ cOut.done
    /\ cOut.uploaded
    /\ cOut.exit = 0
    /\ cOut.pipeline.prompt = "prompts/fix-build.md"
    /\ cOut.pipeline.PullRequestURL = "https://github.com/acme/app/pull/7"
    /\ cIn.payload.pipeline.repository = "git@github.com:acme/app.git"


(***************************************************************************)
(* scripts/pr-assist/trigger-github.ts: main, from the comment webhook to  *)
(* the upload of the pr-assist pipeline.  cIn and cOut as for fix-build.   *)
(***************************************************************************)
LowerChar(c) ==
    LET at == {i \in 1..Len(UpperLetters) : SubSeq(UpperLetters, i, i) = c}
    IN  IF at = {} THEN c
        ELSE LET i == CHOOSE k \in at : TRUE IN SubSeq(LowerLetters, i, i)

\* String.prototype.toLowerCase and includes
RECURSIVE toLowerCase(_)
toLowerCase(s) ==
    IF Len(s) = 0 THEN ""
    ELSE LowerChar(SubSeq(s, 1, 1)) \o toLowerCase(SubSeq(s, 2, Len(s)))

includes(s, sub) == IndexOf(s, sub, 1) # 0

\* determineRequestType(commentBody): "review", "fix-build" or null ("")
determineRequestType(commentBody) ==
    LET lowerBody == toLowerCase(commentBody)
    IN  IF includes(lowerBody, "review") THEN "review"
        ELSE IF /\ includes(lowerBody, "fix")
                /\ (includes(lowerBody, "build") \/ includes(lowerBody, "ci"))
        THEN "fix-build"
        ELSE ""

CommentBodies ==
    {"", "@buildsworth-bk please review this PR",
     "  @buildsworth-bk fix the CI\n", "@buildsworth-bk hello",
     "please review @buildsworth-bk", "@buildsworth-bk REVIEW",
     "@Buildsworth-bk review"}

Comments ==
    {[present |-> FALSE, body |-> "", login |-> ""]}
    \cup {[present |-> TRUE, body |-> b, login |-> a] :
            b \in CommentBodies, a \in {"", "alice"}}

\* payload.issue: absent, an issue, or a pull request
Issues ==
    {[present |-> FALSE, number |-> 0, pull_request |-> FALSE],
     [present |-> TRUE, number |-> 7, pull_request |-> FALSE],
     [present |-> TRUE, number |-> 7, pull_request |-> TRUE]}

CommentPayloads ==
    {[kind |-> "object", action |-> a, issue |-> i, comment |-> c,
      repository |-> [owner |-> "acme", name |-> "app"]] :
        a \in {"", "created", "edited"}, i \in Issues, c \in Comments}

\* what GitHub and Buildkite hold: the head commit of the PR (it may be
\* unreported) and the commits of the branch's latest builds
BuildLists == {<<>>, <<"c2">>, <<"c2", "c1">>}

PrAssistInputs ==
    {[payload |-> p, GITHUB_TOKEN |-> t, BUILDKITE_API_TOKEN |-> k,
      head |-> h, builds |-> b] :
        p \in {NoPayload, BrokenPayload} \cup CommentPayloads,
        t \in BOOLEAN, k \in BOOLEAN, h \in {"", "c1"}, b \in BuildLists}

\* generatePrAssistPipeline: the command of the step it generates
generatePrAssistPipeline(webhookBuildUrl, webhookPullRequestUrl, requestType, commentAuthor) ==
    [prompt |-> IF requestType = "review" THEN "prompts/review.md"
                ELSE "prompts/fix-build.md",
     BuildURL |-> webhookBuildUrl, PullRequestURL |-> webhookPullRequestUrl,
     CommentAuthor |-> commentAuthor]

PrAssistStart ==
    [done |-> FALSE, at |-> "webhook", exit |-> -1, stopped |-> "",
     metadata |-> {}, requestType |-> "", build |-> "", acknowledgement |-> "",
     uploadFailed |-> FALSE, uploaded |-> FALSE,
     pipeline |-> [prompt |-> "", BuildURL |-> "", PullRequestURL |-> "",
                   CommentAuthor |-> ""]]

InitPrAssist ==
    /\ InitStream
    /\ outputFile = ""
    /\ cIn \in PrAssistInputs
    /\ cOut = PrAssistStart

\* 246-259
GetCommentWebhook ==
    /\ cOut.at = "webhook"
    /\ \E agentOK \in BOOLEAN :
          TriggerStep(
             IF ~agentOK \/ cIn.payload.kind # "object"
             THEN processExit(cOut, 1, "error")
             ELSE [cOut EXCEPT !.at = "action"])

\* 261-276
CheckAction ==
    /\ cOut.at = "action"
    /\ \E agentOK \in BOOLEAN :
          LET webhookEvent == cIn.payload.action
          IN  TriggerStep(
                 IF webhookEvent = "" THEN processExit(cOut, 1, "error")
                 ELSE IF webhookEvent # "created"
                 THEN processExit(cOut, 0, "action")
                 ELSE IF ~agentOK THEN processExit(cOut, 1, "error")
                 ELSE [cOut EXCEPT !.at = "comment",
                                   !.metadata = {"webhook:event", "webhook:source"}])

\* the mention is looked for anywhere in the body
mentionGateAnywhere(commentBody) ==
    IF ~includes(commentBody, "@buildsworth-bk") THEN 0 ELSE -1

\* the exit the comment body asks for: 0 unless
\* commentBody.trim().startsWith("@buildsworth-bk")
mentionGate(commentBody) ==
    IF ~HasPrefix(TrimSpace(commentBody), "@buildsworth-bk") THEN 0 ELSE -1

\* 278-301
CheckComment ==
    /\ cOut.at = "comment"
    /\ LET commentBody == cIn.payload.comment.body
           commentAuthor == cIn.payload.comment.login
       IN  TriggerStep(
              IF ~(cIn.payload.issue.present /\ cIn.payload.issue.pull_request)
              THEN processExit(cOut, 0, "pull_request")
              ELSE IF commentBody = "" \/ commentAuthor = ""
              THEN processExit(cOut, 1, "error")
              ELSE IF mentionGate(commentBody) = 0
              THEN processExit(cOut, 0, "mention")
              ELSE [cOut EXCEPT !.at = "requestType"])

\* 304-326
DetermineRequestType ==
    /\ cOut.at = "requestType"
    /\ LET requestType == determineRequestType(cIn.payload.comment.body)
       IN  TriggerStep(
              IF requestType = "" THEN processExit(cOut, 0, "requestType")
              ELSE IF ~cIn.GITHUB_TOKEN THEN processExit(cOut, 1, "error")
              ELSE [cOut EXCEPT !.at = "pr", !.requestType = requestType])

\* 329-348, with getPrHeadCommit (51-74)
GetPullRequest ==
    /\ cOut.at = "pr"
    /\ \E apiOK \in BOOLEAN :
          TriggerStep(
             IF ~apiOK THEN processExit(cOut, 1, "error")
             ELSE IF cIn.head = "" THEN processExit(cOut, 0, "head")
             ELSE [cOut EXCEPT !.at = "build"])

\* builds.find((b) => b.commit === targetCommit): the commit found, or ""
findBuild(builds, targetCommit) ==
    IF \E i \in 1..Len(builds) : builds[i] = targetCommit
    THEN targetCommit ELSE ""

\* 351-365, with findBuildsForBranch (79-136)
findBuildsForBranch ==
    /\ cOut.at = "build"
    /\ \E responseOK \in BOOLEAN :
          TriggerStep(
             IF ~cIn.BUILDKITE_API_TOKEN \/ ~responseOK
             THEN processExit(cOut, 1, "error")
             ELSE IF findBuild(cIn.builds, cIn.head) = ""
             THEN processExit(cOut, 0, "build")
             ELSE [cOut EXCEPT !.at = "acknowledge",
                               !.build = findBuild(cIn.builds, cIn.head)])

\* the failure to post the comment ends the run
createCommentFailedThrows(run) ==
    processExit([run EXCEPT !.acknowledgement = "failed"], 1, "error")

\* catch (error) at 384-387: the failure is logged and the run goes on
createCommentFailed(run) ==
    [run EXCEPT !.acknowledgement = "failed", !.at = "upload"]

\* 367-387
Acknowledge ==
    /\ cOut.at = "acknowledge"
    /\ \E commentOK \in BOOLEAN :
          TriggerStep(
             IF commentOK
             THEN [cOut EXCEPT !.acknowledgement = "posted", !.at = "upload"]
             ELSE createCommentFailed(cOut))

\* 389-411
UploadPrAssist ==
    /\ cOut.at = "upload"
    /\ \E uploadOK \in BOOLEAN :
          LET webhookPullRequestUrl ==
                  "https://github.com/" \o cIn.payload.repository.owner \o "/"
                  \o cIn.payload.repository.name \o "/pull/"
                  \o ToString(cIn.payload.issue.number)
          IN  TriggerStep(
                 IF ~uploadOK
                 THEN [processExit(cOut, 1, "error") EXCEPT !.uploadFailed = TRUE]
                 ELSE [processExit(cOut, 0, "") EXCEPT
                          !.uploaded = TRUE,
                          !.pipeline = generatePrAssistPipeline(
                                          "build at " \o cOut.build,
                                          webhookPullRequestUrl,
                                          cOut.requestType,
                                          cIn.payload.comment.login)])

NextPrAssist ==
    \/ GetCommentWebhook
    \/ CheckAction
    \/ CheckComment
    \/ DetermineRequestType
    \/ GetPullRequest
    \/ findBuildsForBranch
    \/ Acknowledge
    \/ UploadPrAssist

SpecPrAssist == InitPrAssist /\ [][NextPrAssist]_vars

\* the body asks for a review or for a build fix, letter case aside
AsksFor(body) ==
    \/ Contains(toLowerCase(body), "review")
    \/ /\ Contains(toLowerCase(body), "fix")
       /\ (Contains(toLowerCase(body), "build") \/ Contains(toLowerCase(body), "ci"))

\* the conditions of the pr-assist trigger other than the mention
PrAssistConditions ==
    /\ cIn.payload.kind = "object"
    /\ cIn.payload.action = "created"
    /\ cIn.payload.issue.present
    /\ cIn.payload.issue.pull_request
    /\ AsksFor(cIn.payload.comment.body)
    /\ cIn.head # ""
    /\ \E i \in 1..Len(cIn.builds) : cIn.builds[i] = cIn.head

\* a failure to post the acknowledgement leaves the upload to be attempted
AcknowledgementNotNeeded ==
    (cOut.done /\ cOut.acknowledgement = "failed")
        => (cOut.uploaded \/ cOut.uploadFailed)

====
